---- MODULE Spec2Model ----
(***************************************************************************)
(* A model of the lock-free data structures of lockfree_datastructures_lib *)
(*   MPMCQueue      src/unnamed/part_001   (bounded, Vyukov style)         *)
(*   RingBuffer     src/unnamed/part_002   (SPSC, cached cursors)          *)
(*   LockFreeStack  src/lockfree/spsc_stack.hpp  (Treiber style)           *)
(*   LockFreeQueue  src/lockfree/queue.hpp:448-523 (Michael-Scott style)   *)
(* Every atomic load, store and compare-exchange of the code is one step   *)
(* of the thread that executes it; the atomics are taken as sequentially   *)
(* consistent.  compare_exchange_weak may fail spuriously.  An access to   *)
(* storage that holds no live object (freed node, destroyed or never       *)
(* constructed slot) is undefined behaviour and is modelled as a choice    *)
(* over what a build can produce: the stale bytes or garbage.              *)
(***************************************************************************)
EXTENDS Integers, Sequences, FiniteSets, TLC

VARIABLES
    \* ---- construction (next_power_of_2 of MPMCQueue and RingBuffer)
    p2_k,              \* requested capacity, a size_t as the set of its 1-bits
    p2_class,          \* "none" before construction, else the class constructed
    p2_capacity_,      \* capacity_ of the constructed object (set of 1-bits)
    p2_mask_,          \* mask_ of the constructed object (set of 1-bits)
    \* ---- MPMCQueue
    mq_capacity_,      \* capacity_
    enqueue_pos_,      \* enqueue_pos_
    dequeue_pos_,      \* dequeue_pos_
    mq_sequence,       \* buffer_[i].sequence
    mq_storage,        \* buffer_[i].storage: the live T, or NoObj
    mq_pc,             \* per thread: position in try_emplace / try_dequeue
    mq_pos,            \* per thread: local pos
    mq_arg,            \* per thread: the value being enqueued
    mq_result,         \* per thread: local result of try_dequeue
    mq_ret,            \* per thread: what the last call returned
    mq_quiet,          \* per thread: call began with the queue full and idle,
                       \*   and no other thread has stepped since
    mq_next,           \* next fresh value handed to a try_enqueue call
    mq_role,           \* per thread: the operations the thread calls
    mq_dtor,           \* "no", "drain" (~MPMCQueue in its loop), "done"
    mq_destroyed,      \* per element value: how often ~T() ran on it (up to 2)
    mq_size_pc,        \* the thread calling size(): position in the call
    mq_size_enq,       \* the thread calling size(): its local enq
    mq_size_ret,       \* the value size() returned, a size_t
    \* ---- RingBuffer
    rb_capacity_,      \* capacity_
    write_pos_,        \* write_pos_
    read_pos_,         \* read_pos_
    cached_read_pos_,  \* cached_read_pos_ (producer's)
    cached_write_pos_, \* cached_write_pos_ (consumer's)
    rb_storage,        \* storage_: per slot the live T, or none
    rb_pc,             \* position of the producer and of the consumer
    rb_write,          \* local write of the producer's / consumer's call
    rb_read,           \* local read of the producer's / consumer's call
    rb_arg,            \* the value being written
    rb_result,         \* local result of try_read
    rb_next,           \* next fresh value handed to a try_write call
    \* ---- LockFreeStack
    st_threads,        \* the threads that call push and try_pop
    st_head,           \* head
    st_heap,           \* the Node objects by address: state, data, next
    st_pc,             \* per thread: position in push / try_pop
    st_new_node,       \* per thread: local new_node of push
    st_old_head,       \* per thread: local old_head of try_pop
    st_next,           \* per thread: the value old_head->next evaluated to
    st_result,         \* per thread: result of try_pop
    st_value,          \* next fresh value handed to a push call
    st_pops,           \* number of try_pop calls made
    st_uaf,            \* a thread has read a node that was freed
    st_stale,          \* the threads whose old_head was freed since they loaded it
    st_crashed,        \* the process died (wild pointer, double free)
    \* ---- LockFreeQueue
    lq_head,           \* head
    lq_tail,           \* tail
    lq_heap,           \* the Node objects by address: state, data, next
    lq_pc,             \* per thread: position in push / pop
    lq_new_node,       \* per thread: local new_node of push
    lq_old_tail,       \* per thread: local old_tail
    lq_tail_next,      \* per thread: local tail_next of push
    lq_old_head,       \* per thread: local old_head of pop
    lq_head_next,      \* per thread: local head_next of pop
    lq_result,         \* per thread: result of pop
    lq_value,          \* next fresh value handed to a push call
    lq_pops,           \* number of pop calls made
    lq_uaf,            \* a thread has accessed a node that was freed
    lq_stale,          \* per thread: its pointers to a node freed since loaded
    lq_crashed,        \* the process died (wild or null pointer, double free)
    \* ---- observable history of calls (all structures)
    hist

vars == <<p2_k, p2_class, p2_capacity_, p2_mask_,
          mq_capacity_, enqueue_pos_, dequeue_pos_, mq_sequence, mq_storage,
          mq_pc, mq_pos, mq_arg, mq_result, mq_ret, mq_quiet, mq_next,
          mq_role, mq_dtor, mq_destroyed, mq_size_pc, mq_size_enq,
          mq_size_ret,
          rb_capacity_, write_pos_, read_pos_, cached_read_pos_,
          cached_write_pos_, rb_storage, rb_pc, rb_write, rb_read, rb_arg,
          rb_result, rb_next,
          st_threads, st_head, st_heap, st_pc, st_new_node, st_old_head,
          st_next, st_result, st_value, st_pops, st_uaf, st_stale,
          st_crashed,
          lq_head, lq_tail, lq_heap, lq_pc, lq_new_node, lq_old_tail,
          lq_tail_next, lq_old_head, lq_head_next, lq_result, lq_value,
          lq_pops, lq_uaf, lq_stale, lq_crashed, hist>>

p2Vars == <<p2_k, p2_class, p2_capacity_, p2_mask_>>
mqVars == <<mq_capacity_, enqueue_pos_, dequeue_pos_, mq_sequence, mq_storage,
            mq_pc, mq_pos, mq_arg, mq_result, mq_ret, mq_quiet, mq_next,
            mq_role, mq_dtor, mq_destroyed, mq_size_pc, mq_size_enq,
            mq_size_ret>>

mqSizeVars == <<mq_size_pc, mq_size_enq, mq_size_ret>>

rbVars == <<rb_capacity_, write_pos_, read_pos_, cached_read_pos_,
            cached_write_pos_, rb_storage, rb_pc, rb_write, rb_read, rb_arg,
            rb_result, rb_next>>

stVars == <<st_threads, st_head, st_heap, st_pc, st_new_node, st_old_head,
            st_next, st_result, st_value, st_pops, st_uaf, st_stale,
            st_crashed>>

lqVars == <<lq_head, lq_tail, lq_heap, lq_pc, lq_new_node, lq_old_tail,
            lq_tail_next, lq_old_head, lq_head_next, lq_result, lq_value,
            lq_pops, lq_uaf, lq_stale, lq_crashed>>

\* what the operations of one structure leave alone
notP2 == <<mqVars, rbVars, stVars, lqVars>>
notMQ == <<p2Vars, rbVars, stVars, lqVars>>
notRB == <<p2Vars, mqVars, stVars, lqVars>>
notST == <<p2Vars, mqVars, rbVars, lqVars>>
notLQ == <<p2Vars, mqVars, rbVars, stVars>>

----------------------------------------------------------------------------
(* size_t arithmetic, 64 bits wide.  A size_t is the set of the positions   *)
(* of its 1-bits, so that 2^63 and the wrap-around of n + 1 are exact.      *)

Width == 64
Bits == 0 .. (Width - 1)

MinOf(S) == CHOOSE x \in S : \A y \in S : x <= y
MaxOf(S) == CHOOSE x \in S : \A y \in S : x >= y

\* n >> s
ShiftRight(n, s) == {b - s : b \in {x \in n : x >= s}}
\* a | b
BitOr(a, b) == a \cup b
\* n - 1 modulo 2^Width
Dec(n) == IF n = {} THEN Bits
          ELSE LET l == MinOf(n) IN (n \ {l}) \cup (0 .. (l - 1))
\* n + 1 modulo 2^Width
Inc(n) == LET clear == Bits \ n IN
          IF clear = {} THEN {}
          ELSE LET z == MinOf(clear) IN (n \ (0 .. (z - 1))) \cup {z}

\* n - k modulo 2^Width
RECURSIVE DecTimes(_, _)
DecTimes(n, k) == IF k = 0 THEN n ELSE DecTimes(Dec(n), k - 1)

\* small naturals as size_t and back
SmallBits == 0 .. 20
FromNat(k) == {b \in SmallBits : (k \div (2 ^ b)) % 2 = 1}
RECURSIVE ToNat(_)
ToNat(n) == IF n = {} THEN 0
            ELSE LET b == MaxOf(n) IN (2 ^ b) + ToNat(n \ {b})

\* a <= b on size_t
RECURSIVE ULe(_, _)
ULe(a, b) == IF a = {} THEN TRUE
             ELSE IF b = {} THEN FALSE
             ELSE LET x == MaxOf(a)
                      y == MaxOf(b)
                  IN  IF x < y THEN TRUE
                      ELSE IF x > y THEN FALSE
                      ELSE ULe(a \ {x}, b \ {y})

\* The mutant of next_power_of_2 that forgets the decrement.
next_power_of_2_NoDec(n) ==
    IF n = {} THEN FromNat(1)
    ELSE LET n1 == BitOr(n, ShiftRight(n, 1))
             n2 == BitOr(n1, ShiftRight(n1, 2))
             n3 == BitOr(n2, ShiftRight(n2, 4))
             n4 == BitOr(n3, ShiftRight(n3, 8))
             n5 == BitOr(n4, ShiftRight(n4, 16))
             n6 == BitOr(n5, ShiftRight(n5, 32))
         IN  Inc(n6)

\* MPMCQueue::next_power_of_2
next_power_of_2(n) ==
    IF n = {} THEN FromNat(1)
    ELSE LET n0 == Dec(n)
             n1 == BitOr(n0, ShiftRight(n0, 1))
             n2 == BitOr(n1, ShiftRight(n1, 2))
             n3 == BitOr(n2, ShiftRight(n2, 4))
             n4 == BitOr(n3, ShiftRight(n3, 8))
             n5 == BitOr(n4, ShiftRight(n4, 16))
             n6 == BitOr(n5, ShiftRight(n5, 32))
         IN  Inc(n6)

\* RingBuffer::next_power_of_2
rb_next_power_of_2(n) ==
    IF n = {} THEN FromNat(1)
    ELSE LET n0 == Dec(n)
             n1 == BitOr(n0, ShiftRight(n0, 1))
             n2 == BitOr(n1, ShiftRight(n1, 2))
             n3 == BitOr(n2, ShiftRight(n2, 4))
             n4 == BitOr(n3, ShiftRight(n3, 8))
             n5 == BitOr(n4, ShiftRight(n4, 16))
             n6 == BitOr(n5, ShiftRight(n5, 32))
         IN  Inc(n6)

\* a & b on small naturals
RECURSIVE BitAnd(_, _)
BitAnd(a, b) == IF a = 0 \/ b = 0 THEN 0
                ELSE (a % 2) * (b % 2) + 2 * BitAnd(a \div 2, b \div 2)

\* What a slot or node holds when no object was ever stored in it, and the
\* value a read of dead storage yields when the stale bytes are gone.
Garbage == 0

Append3(h, op, v, t) == Append(h, <<op, v, t>>)

----------------------------------------------------------------------------
(* Construction: MPMCQueue(size_t) and RingBuffer(size_t)                   *)

MaxSmallK == 40

\* The requested capacities: the small ones, and every power of two of a
\* size_t with its two neighbours.
P2Inputs == {FromNat(k) : k \in 0 .. MaxSmallK}
            \cup {{b} : b \in Bits}
            \cup {Inc({b}) : b \in Bits}
            \cup {Dec({b}) : b \in Bits}
            \cup {Bits}

P2Init == /\ p2_k \in P2Inputs
          /\ p2_class = "none"
          /\ p2_capacity_ = {}
          /\ p2_mask_ = {}

P2Idle == /\ p2_k = {}
          /\ p2_class = "none"
          /\ p2_capacity_ = {}
          /\ p2_mask_ = {}

\* MPMCQueue::MPMCQueue: capacity_(next_power_of_2(capacity)), mask_(capacity_ - 1)
MPMCQueue_ctor ==
    /\ p2_class = "none"
    /\ p2_class' = "MPMCQueue"
    /\ p2_capacity_' = next_power_of_2(p2_k)
    /\ p2_mask_' = Dec(next_power_of_2(p2_k))
    /\ UNCHANGED <<p2_k, hist>>
    /\ UNCHANGED notP2

\* RingBuffer::RingBuffer: capacity_(next_power_of_2(capacity)), mask_(capacity_ - 1)
RingBuffer_ctor ==
    /\ p2_class = "none"
    /\ p2_class' = "RingBuffer"
    /\ p2_capacity_' = rb_next_power_of_2(p2_k)
    /\ p2_mask_' = Dec(rb_next_power_of_2(p2_k))
    /\ UNCHANGED <<p2_k, hist>>
    /\ UNCHANGED notP2

----------------------------------------------------------------------------
(* MPMCQueue<T>                                                             *)

MaxK == 2
MaxEnq == 3

\* The threads that call the queue's operations
MQThreads == {1, 2}
\* The thread that destroys the queue
MQDtorThread == 1
MQSlots == 0 .. (mq_capacity_ - 1)
mq_mask_ == mq_capacity_ - 1

\* &buffer_[pos & mask_]
MQNode(pos) == BitAnd(pos, mq_mask_)

\* Number of slots that hold a live element
MQResident == Cardinality({i \in MQSlots : mq_storage[i].live})

\* A read of the T in a slot: the element, or, when the slot holds no live
\* object, the stale bytes or garbage.
MQRead(i) == IF mq_storage[i].live THEN {mq_storage[i].val}
             ELSE {mq_storage[i].val, Garbage}

\* The mutant of DeqDiff that takes a writable slot for a readable one.
DeqDiff_Writable(seq, pos) == seq - pos

\* try_dequeue, line 170: diff = (intptr_t)seq - (intptr_t)(pos + 1)
DeqDiff(seq, pos) == seq - (pos + 1)

\* The mutant of ClaimNext that claims two positions at once.
ClaimNext_Two(pos) == pos + 2

\* try_emplace lines 129-130, try_dequeue lines 174-175: the desired value of
\* compare_exchange_weak(pos, pos + 1)
ClaimNext(pos) == pos + 1

\* The mutant of EnqDiff that takes a full queue for a free slot.
EnqDiff_NeverFull(seq, pos) == IF seq - pos < 0 THEN 0 ELSE seq - pos

\* try_emplace, line 125: diff = (intptr_t)seq - (intptr_t)pos
EnqDiff(seq, pos) == seq - pos

\* No element is in the queue: none stored and not yet taken, none resident
MQHoldsNothing == enqueue_pos_ = dequeue_pos_ /\ MQResident = 0

MQOthersIdle(t) == \A u \in MQThreads \ {t} : mq_pc[u] = "idle"

\* mq_quiet after a step of thread t
MQQuiet(t, own) == [u \in MQThreads |-> IF u = t THEN own ELSE FALSE]

\* How the program uses the queue: every thread calls every operation, or
\* thread 1 is the only producer and thread 2 the only consumer.
MQUses == {[t \in MQThreads |-> "any"],
           [t \in MQThreads |-> IF t = 1 THEN "producer" ELSE "consumer"]}

MQInit ==
    /\ mq_capacity_ \in {ToNat(next_power_of_2(FromNat(k))) : k \in 0 .. MaxK}
    /\ enqueue_pos_ = 0
    /\ dequeue_pos_ = 0
    /\ mq_sequence = [i \in MQSlots |-> i]
    /\ mq_storage = [i \in MQSlots |-> [live |-> FALSE, val |-> Garbage]]
    /\ mq_pc = [t \in MQThreads |-> "idle"]
    /\ mq_pos = [t \in MQThreads |-> 0]
    /\ mq_arg = [t \in MQThreads |-> Garbage]
    /\ mq_result = [t \in MQThreads |-> Garbage]
    /\ mq_ret = [t \in MQThreads |-> "-"]
    /\ mq_quiet = [t \in MQThreads |-> FALSE]
    /\ mq_next = 1
    /\ mq_role \in MQUses
    /\ mq_dtor = "no"
    /\ mq_destroyed = [v \in 0 .. MaxEnq |-> 0]
    /\ mq_size_pc = "idle"
    /\ mq_size_enq = 0
    /\ mq_size_ret = {}

MQIdle ==
    /\ mq_capacity_ = 0
    /\ enqueue_pos_ = 0
    /\ dequeue_pos_ = 0
    /\ mq_sequence = <<>>
    /\ mq_storage = <<>>
    /\ mq_pc = <<>>
    /\ mq_pos = <<>>
    /\ mq_arg = <<>>
    /\ mq_result = <<>>
    /\ mq_ret = <<>>
    /\ mq_quiet = <<>>
    /\ mq_next = 1
    /\ mq_role = <<>>
    /\ mq_dtor = "no"
    /\ mq_destroyed = <<>>
    /\ mq_size_pc = "idle"
    /\ mq_size_enq = 0
    /\ mq_size_ret = {}

\* try_emplace, line 119: pos = enqueue_pos_.load()
EnqStart(t) ==
    /\ mq_pc[t] = "idle"
    /\ mq_dtor = "no"
    /\ mq_role[t] \in {"any", "producer"}
    /\ mq_next <= MaxEnq
    /\ mq_arg' = [mq_arg EXCEPT ![t] = mq_next]
    /\ mq_next' = mq_next + 1
    /\ mq_pos' = [mq_pos EXCEPT ![t] = enqueue_pos_]
    /\ mq_pc' = [mq_pc EXCEPT ![t] = "e_seq"]
    /\ mq_ret' = [mq_ret EXCEPT ![t] = "-"]
    /\ mq_quiet' = MQQuiet(t, MQOthersIdle(t) /\ MQResident = mq_capacity_)
    /\ UNCHANGED notMQ
    /\ UNCHANGED mqSizeVars
    /\ UNCHANGED <<mq_capacity_, enqueue_pos_, dequeue_pos_, mq_sequence,
                   mq_storage, mq_result, mq_role, mq_dtor, mq_destroyed, hist>>

\* try_emplace, lines 123-127, 134-137: seq = node->sequence.load(), diff
EnqLoadSeq(t) ==
    /\ mq_pc[t] = "e_seq"
    /\ LET diff == EnqDiff(mq_sequence[MQNode(mq_pos[t])], mq_pos[t]) IN
         IF diff = 0
         THEN /\ mq_pc' = [mq_pc EXCEPT ![t] = "e_cas"]
              /\ mq_quiet' = MQQuiet(t, mq_quiet[t])
              /\ UNCHANGED mq_ret
         ELSE IF diff < 0
         THEN /\ mq_pc' = [mq_pc EXCEPT ![t] = "idle"]
              /\ mq_quiet' = MQQuiet(t, FALSE)
              /\ mq_ret' = [mq_ret EXCEPT ![t] = "false"]
         ELSE /\ mq_pc' = [mq_pc EXCEPT ![t] = "e_reload"]
              /\ mq_quiet' = MQQuiet(t, mq_quiet[t])
              /\ UNCHANGED mq_ret
    /\ UNCHANGED notMQ
    /\ UNCHANGED mqSizeVars
    /\ UNCHANGED <<mq_capacity_, enqueue_pos_, dequeue_pos_, mq_sequence,
                   mq_storage, mq_pos, mq_arg, mq_result, mq_next, mq_role, mq_dtor, mq_destroyed, hist>>

\* try_emplace, lines 129-133: enqueue_pos_.compare_exchange_weak(pos, pos + 1)
EnqCas(t) ==
    /\ mq_pc[t] = "e_cas"
    /\ \/ /\ enqueue_pos_ = mq_pos[t]
          /\ enqueue_pos_' = ClaimNext(mq_pos[t])
          /\ mq_pc' = [mq_pc EXCEPT ![t] = "e_construct"]
          /\ UNCHANGED mq_pos
       \/ \* failed (another thread moved the cursor) or failed spuriously
          /\ mq_pos' = [mq_pos EXCEPT ![t] = enqueue_pos_]
          /\ mq_pc' = [mq_pc EXCEPT ![t] = "e_seq"]
          /\ UNCHANGED enqueue_pos_
    /\ mq_quiet' = MQQuiet(t, mq_quiet[t])
    /\ UNCHANGED notMQ
    /\ UNCHANGED mqSizeVars
    /\ UNCHANGED <<mq_capacity_, dequeue_pos_, mq_sequence, mq_storage,
                   mq_arg, mq_result, mq_ret, mq_next, mq_role, mq_dtor, mq_destroyed, hist>>

\* try_emplace, line 139: pos = enqueue_pos_.load()
EnqReload(t) ==
    /\ mq_pc[t] = "e_reload"
    /\ mq_pos' = [mq_pos EXCEPT ![t] = enqueue_pos_]
    /\ mq_pc' = [mq_pc EXCEPT ![t] = "e_seq"]
    /\ mq_quiet' = MQQuiet(t, mq_quiet[t])
    /\ UNCHANGED notMQ
    /\ UNCHANGED mqSizeVars
    /\ UNCHANGED <<mq_capacity_, enqueue_pos_, dequeue_pos_, mq_sequence,
                   mq_storage, mq_arg, mq_result, mq_ret, mq_next, mq_role, mq_dtor, mq_destroyed, hist>>

\* try_emplace, line 145: new (node->data_ptr()) T(args...)
EnqConstruct(t) ==
    /\ mq_pc[t] = "e_construct"
    /\ mq_storage' = [mq_storage EXCEPT ![MQNode(mq_pos[t])] =
                         [live |-> TRUE, val |-> mq_arg[t]]]
    /\ mq_pc' = [mq_pc EXCEPT ![t] = "e_publish"]
    /\ mq_quiet' = MQQuiet(t, mq_quiet[t])
    /\ UNCHANGED notMQ
    /\ UNCHANGED mqSizeVars
    /\ UNCHANGED <<mq_capacity_, enqueue_pos_, dequeue_pos_, mq_sequence,
                   mq_pos, mq_arg, mq_result, mq_ret, mq_next, mq_role, mq_dtor, mq_destroyed, hist>>

\* try_emplace, lines 146-151: T's constructor throws
EnqThrow(t) ==
    /\ mq_pc[t] = "e_construct"
    /\ mq_sequence' = [mq_sequence EXCEPT ![MQNode(mq_pos[t])] =
                          mq_pos[t] + mq_capacity_]
    /\ mq_pc' = [mq_pc EXCEPT ![t] = "idle"]
    /\ mq_ret' = [mq_ret EXCEPT ![t] = "throw"]
    /\ mq_quiet' = MQQuiet(t, FALSE)
    /\ hist' = Append3(hist, "enq_throw", mq_arg[t], t)
    /\ UNCHANGED notMQ
    /\ UNCHANGED mqSizeVars
    /\ UNCHANGED <<mq_capacity_, enqueue_pos_, dequeue_pos_, mq_storage,
                   mq_pos, mq_arg, mq_result, mq_next, mq_role, mq_dtor, mq_destroyed>>

\* try_emplace, lines 155-156: node->sequence.store(pos + 1); return true
EnqPublish(t) ==
    /\ mq_pc[t] = "e_publish"
    /\ mq_sequence' = [mq_sequence EXCEPT ![MQNode(mq_pos[t])] = mq_pos[t] + 1]
    /\ mq_pc' = [mq_pc EXCEPT ![t] = "idle"]
    /\ mq_ret' = [mq_ret EXCEPT ![t] = "true"]
    /\ mq_quiet' = MQQuiet(t, FALSE)
    /\ hist' = Append3(hist, "enq", mq_arg[t], t)
    /\ UNCHANGED notMQ
    /\ UNCHANGED mqSizeVars
    /\ UNCHANGED <<mq_capacity_, enqueue_pos_, dequeue_pos_, mq_storage,
                   mq_pos, mq_arg, mq_result, mq_next, mq_role, mq_dtor, mq_destroyed>>

\* try_dequeue, line 164 (and 215): pos = dequeue_pos_.load()
DeqStart(t) ==
    /\ mq_pc[t] = "idle"
    /\ \/ mq_dtor = "no" /\ mq_role[t] \in {"any", "consumer"}
       \/ \* ~MPMCQueue line 84: the drain loop calls try_dequeue
          mq_dtor = "drain" /\ t = MQDtorThread /\ mq_ret[t] # "false"
    /\ mq_pos' = [mq_pos EXCEPT ![t] = dequeue_pos_]
    /\ mq_pc' = [mq_pc EXCEPT ![t] = "d_seq"]
    /\ mq_ret' = [mq_ret EXCEPT ![t] = "-"]
    /\ mq_quiet' = MQQuiet(t, MQOthersIdle(t) /\ MQHoldsNothing)
    /\ UNCHANGED notMQ
    /\ UNCHANGED mqSizeVars
    /\ UNCHANGED <<mq_capacity_, enqueue_pos_, dequeue_pos_, mq_sequence,
                   mq_storage, mq_arg, mq_result, mq_next, mq_role, mq_dtor, mq_destroyed, hist>>

\* try_dequeue, lines 168-172, 179-182: seq = node->sequence.load(), diff
DeqLoadSeq(t) ==
    /\ mq_pc[t] = "d_seq"
    /\ LET diff == DeqDiff(mq_sequence[MQNode(mq_pos[t])], mq_pos[t]) IN
         IF diff = 0
         THEN /\ mq_pc' = [mq_pc EXCEPT ![t] = "d_cas"]
              /\ UNCHANGED mq_ret
         ELSE IF diff < 0
         THEN /\ mq_pc' = [mq_pc EXCEPT ![t] = "idle"]
              /\ mq_ret' = [mq_ret EXCEPT ![t] = "false"]
         ELSE /\ mq_pc' = [mq_pc EXCEPT ![t] = "d_reload"]
              /\ UNCHANGED mq_ret
    /\ mq_quiet' = MQQuiet(t, mq_quiet[t] /\ mq_pc'[t] # "idle")
    /\ UNCHANGED notMQ
    /\ UNCHANGED mqSizeVars
    /\ UNCHANGED <<mq_capacity_, enqueue_pos_, dequeue_pos_, mq_sequence,
                   mq_storage, mq_pos, mq_arg, mq_result, mq_next, mq_role, mq_dtor, mq_destroyed, hist>>

\* try_dequeue, lines 174-178: dequeue_pos_.compare_exchange_weak(pos, pos + 1)
DeqCas(t) ==
    /\ mq_pc[t] = "d_cas"
    /\ \/ /\ dequeue_pos_ = mq_pos[t]
          /\ dequeue_pos_' = ClaimNext(mq_pos[t])
          /\ mq_pc' = [mq_pc EXCEPT ![t] = "d_move"]
          /\ UNCHANGED mq_pos
       \/ /\ mq_pos' = [mq_pos EXCEPT ![t] = dequeue_pos_]
          /\ mq_pc' = [mq_pc EXCEPT ![t] = "d_seq"]
          /\ UNCHANGED dequeue_pos_
    /\ mq_quiet' = MQQuiet(t, mq_quiet[t])
    /\ UNCHANGED notMQ
    /\ UNCHANGED mqSizeVars
    /\ UNCHANGED <<mq_capacity_, enqueue_pos_, mq_sequence, mq_storage,
                   mq_arg, mq_result, mq_ret, mq_next, mq_role, mq_dtor, mq_destroyed, hist>>

\* try_dequeue, line 184: pos = dequeue_pos_.load()
DeqReload(t) ==
    /\ mq_pc[t] = "d_reload"
    /\ mq_pos' = [mq_pos EXCEPT ![t] = dequeue_pos_]
    /\ mq_pc' = [mq_pc EXCEPT ![t] = "d_seq"]
    /\ mq_quiet' = MQQuiet(t, mq_quiet[t])
    /\ UNCHANGED notMQ
    /\ UNCHANGED mqSizeVars
    /\ UNCHANGED <<mq_capacity_, enqueue_pos_, dequeue_pos_, mq_sequence,
                   mq_storage, mq_arg, mq_result, mq_ret, mq_next, mq_role, mq_dtor, mq_destroyed, hist>>

\* try_dequeue, lines 189-192: result.emplace(std::move(*item_ptr))
DeqMove(t) ==
    /\ mq_pc[t] = "d_move"
    /\ \E v \in MQRead(MQNode(mq_pos[t])) :
          mq_result' = [mq_result EXCEPT ![t] = v]
    /\ mq_pc' = [mq_pc EXCEPT ![t] = "d_destroy"]
    /\ mq_quiet' = MQQuiet(t, mq_quiet[t])
    /\ UNCHANGED notMQ
    /\ UNCHANGED mqSizeVars
    /\ UNCHANGED <<mq_capacity_, enqueue_pos_, dequeue_pos_, mq_sequence,
                   mq_storage, mq_pos, mq_arg, mq_ret, mq_next, mq_role, mq_dtor, mq_destroyed, hist>>

\* try_dequeue, lines 193-198: T's move constructor throws
DeqThrow(t) ==
    /\ mq_pc[t] = "d_move"
    /\ mq_sequence' = [mq_sequence EXCEPT ![MQNode(mq_pos[t])] =
                          mq_pos[t] + mq_capacity_]
    /\ mq_pc' = [mq_pc EXCEPT ![t] = "idle"]
    /\ mq_ret' = [mq_ret EXCEPT ![t] = "throw"]
    /\ mq_quiet' = MQQuiet(t, FALSE)
    /\ hist' = Append3(hist, "deq_throw", Garbage, t)
    /\ UNCHANGED notMQ
    /\ UNCHANGED mqSizeVars
    /\ UNCHANGED <<mq_capacity_, enqueue_pos_, dequeue_pos_, mq_storage,
                   mq_pos, mq_arg, mq_result, mq_next, mq_role, mq_dtor, mq_destroyed>>

\* try_dequeue, line 201: item_ptr->~T()
DeqDestroy(t) ==
    /\ mq_pc[t] = "d_destroy"
    /\ mq_storage' = [mq_storage EXCEPT ![MQNode(mq_pos[t])].live = FALSE]
    /\ mq_destroyed' = [mq_destroyed EXCEPT
                            ![mq_storage[MQNode(mq_pos[t])].val] =
                                IF @ < 2 THEN @ + 1 ELSE @]
    /\ mq_pc' = [mq_pc EXCEPT ![t] = "d_publish"]
    /\ mq_quiet' = MQQuiet(t, mq_quiet[t])
    /\ UNCHANGED notMQ
    /\ UNCHANGED mqSizeVars
    /\ UNCHANGED <<mq_capacity_, enqueue_pos_, dequeue_pos_, mq_sequence,
                   mq_pos, mq_arg, mq_result, mq_ret, mq_next, mq_role, mq_dtor, hist>>

\* try_dequeue, lines 205-207: node->sequence.store(pos + capacity_); return result
DeqPublish(t) ==
    /\ mq_pc[t] = "d_publish"
    /\ mq_sequence' = [mq_sequence EXCEPT ![MQNode(mq_pos[t])] =
                          mq_pos[t] + mq_capacity_]
    /\ mq_pc' = [mq_pc EXCEPT ![t] = "idle"]
    /\ mq_ret' = [mq_ret EXCEPT ![t] = "true"]
    /\ mq_quiet' = MQQuiet(t, FALSE)
    /\ hist' = Append3(hist, "deq", mq_result[t], t)
    /\ UNCHANGED notMQ
    /\ UNCHANGED mqSizeVars
    /\ UNCHANGED <<mq_capacity_, enqueue_pos_, dequeue_pos_, mq_storage,
                   mq_pos, mq_arg, mq_result, mq_next, mq_role, mq_dtor, mq_destroyed>>

\* ~MPMCQueue lines 79-80: the destructor begins, no call is in flight
DtorStart ==
    /\ mq_dtor = "no"
    /\ \A t \in MQThreads : mq_pc[t] = "idle"
    /\ mq_dtor' = "drain"
    /\ mq_ret' = [mq_ret EXCEPT ![MQDtorThread] = "-"]
    /\ mq_quiet' = [t \in MQThreads |-> FALSE]
    /\ UNCHANGED notMQ
    /\ UNCHANGED mqSizeVars
    /\ UNCHANGED <<mq_capacity_, enqueue_pos_, dequeue_pos_, mq_sequence,
                   mq_storage, mq_pc, mq_pos, mq_arg, mq_result, mq_next,
                   mq_role, mq_destroyed, hist>>

\* ~MPMCQueue lines 85, 90-95: try_dequeue returned nullopt; the nodes are
\* destroyed (a Node holds bytes and a sequence number, its destructor
\* destroys no T) and the buffer is freed
DtorFree ==
    /\ mq_dtor = "drain"
    /\ mq_pc[MQDtorThread] = "idle"
    /\ mq_ret[MQDtorThread] = "false"
    /\ mq_dtor' = "done"
    /\ mq_quiet' = [t \in MQThreads |-> FALSE]
    /\ UNCHANGED notMQ
    /\ UNCHANGED mqSizeVars
    /\ UNCHANGED <<mq_capacity_, enqueue_pos_, dequeue_pos_, mq_sequence,
                   mq_storage, mq_pc, mq_pos, mq_arg, mq_result, mq_ret,
                   mq_next, mq_role, mq_destroyed, hist>>

MQNext ==
    \E t \in MQThreads :
        \/ EnqStart(t) \/ EnqLoadSeq(t) \/ EnqCas(t) \/ EnqReload(t)
        \/ EnqConstruct(t) \/ EnqPublish(t)
        \/ DeqStart(t) \/ DeqLoadSeq(t) \/ DeqCas(t) \/ DeqReload(t)
        \/ DeqMove(t) \/ DeqDestroy(t) \/ DeqPublish(t)

MQThrowNext ==
    \E t \in MQThreads : EnqThrow(t) \/ DeqThrow(t)

MQDtorNext == DtorStart \/ DtorFree

\* size, line 268: return enq - deq, a size_t difference modulo 2^Width
SizeDiff(enq, deq) ==
    IF enq >= deq THEN FromNat(enq - deq) ELSE DecTimes({}, deq - enq)

\* full, line 275: size() >= capacity_
MQFullOf(size) == ULe(FromNat(mq_capacity_), size)

\* size, line 264: enq = enqueue_pos_.load(relaxed), by a thread of its own
SizeLoadEnq ==
    /\ mq_size_pc = "idle"
    /\ mq_size_enq' = enqueue_pos_
    /\ mq_size_pc' = "s_deq"
    /\ UNCHANGED <<mq_capacity_, enqueue_pos_, dequeue_pos_, mq_sequence,
                   mq_storage, mq_pc, mq_pos, mq_arg, mq_result, mq_ret,
                   mq_quiet, mq_next, mq_role, mq_dtor, mq_destroyed,
                   mq_size_ret, hist>>
    /\ UNCHANGED notMQ

\* size, lines 265-268: deq = dequeue_pos_.load(relaxed); return enq - deq
SizeLoadDeq ==
    /\ mq_size_pc = "s_deq"
    /\ mq_size_ret' = SizeDiff(mq_size_enq, dequeue_pos_)
    /\ mq_size_pc' = "returned"
    /\ UNCHANGED <<mq_capacity_, enqueue_pos_, dequeue_pos_, mq_sequence,
                   mq_storage, mq_pc, mq_pos, mq_arg, mq_result, mq_ret,
                   mq_quiet, mq_next, mq_role, mq_dtor, mq_destroyed,
                   mq_size_enq, hist>>
    /\ UNCHANGED notMQ

MQSizeNext == SizeLoadEnq \/ SizeLoadDeq

----------------------------------------------------------------------------
(* RingBuffer<T>: one producer thread "P", one consumer thread "C"          *)

MaxRbK == 2
MaxWrite == 4

RBSlots == 0 .. (rb_capacity_ - 1)
rb_mask_ == rb_capacity_ - 1

\* storage_ + ((pos & mask_) * sizeof(T))
RBSlot(pos) == BitAnd(pos, rb_mask_)

\* (a - b) >= c in size_t arithmetic: a - b wraps to a huge value when a < b
USubGe(a, b, c) == IF a >= b THEN a - b >= c ELSE TRUE

\* The mutant of RBFull that lets one element too many in.
RBFull_OffByOne(write, read) == IF write >= read
                                THEN write - read > rb_capacity_
                                ELSE TRUE

\* (write - read) >= capacity_
RBFull(write, read) == USubGe(write, read, rb_capacity_)

\* The mutant of RBAcquire that caches a position the other side has not
\* reached yet.
RBAcquire_Ahead(cursor) == cursor + 1

\* read_pos_.load(acquire) at line 114, write_pos_.load(acquire) at line 177:
\* the value the other side's cursor has now
RBAcquire(cursor) == cursor

\* A read of the T in a slot: the element, or, when the slot holds no live
\* object, the stale bytes or garbage.
RBLoad(i) == IF rb_storage[i].live THEN {rb_storage[i].val}
             ELSE {rb_storage[i].val, Garbage}

RBInit ==
    /\ rb_capacity_ \in {ToNat(rb_next_power_of_2(FromNat(k))) : k \in 0 .. MaxRbK}
    /\ write_pos_ = 0
    /\ read_pos_ = 0
    /\ cached_read_pos_ = 0
    /\ cached_write_pos_ = 0
    /\ rb_storage = [i \in RBSlots |-> [live |-> FALSE, val |-> Garbage]]
    /\ rb_pc = [s \in {"P", "C"} |-> "idle"]
    /\ rb_write = [s \in {"P", "C"} |-> 0]
    /\ rb_read = [s \in {"P", "C"} |-> 0]
    /\ rb_arg = Garbage
    /\ rb_result = Garbage
    /\ rb_next = 1

RBIdle ==
    /\ rb_capacity_ = 0
    /\ write_pos_ = 0
    /\ read_pos_ = 0
    /\ cached_read_pos_ = 0
    /\ cached_write_pos_ = 0
    /\ rb_storage = <<>>
    /\ rb_pc = <<>>
    /\ rb_write = <<>>
    /\ rb_read = <<>>
    /\ rb_arg = Garbage
    /\ rb_result = Garbage
    /\ rb_next = 1

\* try_write lines 107-111 (try_emplace 143-146): load write_pos_, read the
\* cache, test for full
WriteStart ==
    /\ rb_pc["P"] = "idle"
    /\ rb_next <= MaxWrite
    /\ rb_arg' = rb_next
    /\ rb_next' = rb_next + 1
    /\ rb_write' = [rb_write EXCEPT !["P"] = write_pos_]
    /\ rb_read' = [rb_read EXCEPT !["P"] = cached_read_pos_]
    /\ rb_pc' = [rb_pc EXCEPT !["P"] =
                    IF RBFull(write_pos_, cached_read_pos_)
                    THEN "w_refresh" ELSE "w_construct"]
    /\ UNCHANGED <<rb_capacity_, write_pos_, read_pos_, cached_read_pos_,
                   cached_write_pos_, rb_storage, rb_result, hist>>
    /\ UNCHANGED notRB

\* try_write lines 113-117 (try_emplace 147-151): refresh the cache, test again
WriteRefresh ==
    /\ rb_pc["P"] = "w_refresh"
    /\ rb_read' = [rb_read EXCEPT !["P"] = RBAcquire(read_pos_)]
    /\ cached_read_pos_' = RBAcquire(read_pos_)
    /\ rb_pc' = [rb_pc EXCEPT !["P"] =
                    IF RBFull(rb_write["P"], RBAcquire(read_pos_))
                    THEN "idle" ELSE "w_construct"]
    /\ UNCHANGED <<rb_capacity_, write_pos_, read_pos_, cached_write_pos_,
                   rb_storage, rb_write, rb_arg, rb_result, rb_next, hist>>
    /\ UNCHANGED notRB

\* try_write lines 121-123 (try_emplace 154-156): new (ptr) T(item)
WriteConstruct ==
    /\ rb_pc["P"] = "w_construct"
    /\ rb_storage' = [rb_storage EXCEPT ![RBSlot(rb_write["P"])] =
                         [live |-> TRUE, val |-> rb_arg]]
    /\ rb_pc' = [rb_pc EXCEPT !["P"] = "w_publish"]
    /\ UNCHANGED <<rb_capacity_, write_pos_, read_pos_, cached_read_pos_,
                   cached_write_pos_, rb_write, rb_read, rb_arg, rb_result,
                   rb_next, hist>>
    /\ UNCHANGED notRB

\* try_write lines 124-127 (try_emplace 157-159): T's constructor throws,
\* return false
WriteThrow ==
    /\ rb_pc["P"] = "w_construct"
    /\ rb_pc' = [rb_pc EXCEPT !["P"] = "idle"]
    /\ UNCHANGED <<rb_capacity_, write_pos_, read_pos_, cached_read_pos_,
                   cached_write_pos_, rb_storage, rb_write, rb_read, rb_arg,
                   rb_result, rb_next, hist>>
    /\ UNCHANGED notRB

\* try_write lines 130-131 (try_emplace 161-162): write_pos_.store(write + 1)
WritePublish ==
    /\ rb_pc["P"] = "w_publish"
    /\ write_pos_' = rb_write["P"] + 1
    /\ rb_pc' = [rb_pc EXCEPT !["P"] = "idle"]
    /\ hist' = Append3(hist, "write", rb_arg, "P")
    /\ UNCHANGED <<rb_capacity_, read_pos_, cached_read_pos_,
                   cached_write_pos_, rb_storage, rb_write, rb_read, rb_arg,
                   rb_result, rb_next>>
    /\ UNCHANGED notRB

\* try_read lines 170-174 (and 209-212): load read_pos_, read the cache, test
\* for empty
ReadStart ==
    /\ rb_pc["C"] = "idle"
    /\ rb_read' = [rb_read EXCEPT !["C"] = read_pos_]
    /\ rb_write' = [rb_write EXCEPT !["C"] = cached_write_pos_]
    /\ rb_pc' = [rb_pc EXCEPT !["C"] =
                    IF read_pos_ >= cached_write_pos_
                    THEN "r_refresh" ELSE "r_move"]
    /\ UNCHANGED <<rb_capacity_, write_pos_, read_pos_, cached_read_pos_,
                   cached_write_pos_, rb_storage, rb_arg, rb_result, rb_next,
                   hist>>
    /\ UNCHANGED notRB

\* try_read lines 176-180 (and 213-217): refresh the cache, test again
ReadRefresh ==
    /\ rb_pc["C"] = "r_refresh"
    /\ rb_write' = [rb_write EXCEPT !["C"] = RBAcquire(write_pos_)]
    /\ cached_write_pos_' = RBAcquire(write_pos_)
    /\ rb_pc' = [rb_pc EXCEPT !["C"] =
                    IF rb_read["C"] >= RBAcquire(write_pos_)
                    THEN "idle" ELSE "r_move"]
    /\ UNCHANGED <<rb_capacity_, write_pos_, read_pos_, cached_read_pos_,
                   rb_storage, rb_read, rb_arg, rb_result, rb_next, hist>>
    /\ UNCHANGED notRB

\* try_read lines 184-189 (and 220-222): result.emplace(std::move(*ptr))
ReadMove ==
    /\ rb_pc["C"] = "r_move"
    /\ rb_result' \in RBLoad(RBSlot(rb_read["C"]))
    /\ rb_pc' = [rb_pc EXCEPT !["C"] = "r_destroy"]
    /\ UNCHANGED <<rb_capacity_, write_pos_, read_pos_, cached_read_pos_,
                   cached_write_pos_, rb_storage, rb_write, rb_read, rb_arg,
                   rb_next, hist>>
    /\ UNCHANGED notRB

\* try_read lines 190-193 (and 223-225): T's move throws, return nullopt
ReadThrow ==
    /\ rb_pc["C"] = "r_move"
    /\ rb_pc' = [rb_pc EXCEPT !["C"] = "idle"]
    /\ UNCHANGED <<rb_capacity_, write_pos_, read_pos_, cached_read_pos_,
                   cached_write_pos_, rb_storage, rb_write, rb_read, rb_arg,
                   rb_result, rb_next, hist>>
    /\ UNCHANGED notRB

\* try_read line 196 (and 227): ptr->~T()
ReadDestroy ==
    /\ rb_pc["C"] = "r_destroy"
    /\ rb_storage' = [rb_storage EXCEPT ![RBSlot(rb_read["C"])].live = FALSE]
    /\ rb_pc' = [rb_pc EXCEPT !["C"] = "r_publish"]
    /\ UNCHANGED <<rb_capacity_, write_pos_, read_pos_, cached_read_pos_,
                   cached_write_pos_, rb_write, rb_read, rb_arg, rb_result,
                   rb_next, hist>>
    /\ UNCHANGED notRB

\* try_read lines 199-201 (and 228-229): read_pos_.store(read + 1)
ReadPublish ==
    /\ rb_pc["C"] = "r_publish"
    /\ read_pos_' = rb_read["C"] + 1
    /\ rb_pc' = [rb_pc EXCEPT !["C"] = "idle"]
    /\ hist' = Append3(hist, "read", rb_result, "C")
    /\ UNCHANGED <<rb_capacity_, write_pos_, cached_read_pos_,
                   cached_write_pos_, rb_storage, rb_write, rb_read, rb_arg,
                   rb_result, rb_next>>
    /\ UNCHANGED notRB

RBNext ==
    \/ WriteStart \/ WriteRefresh \/ WriteConstruct \/ WriteThrow \/ WritePublish
    \/ ReadStart \/ ReadRefresh \/ ReadMove \/ ReadThrow \/ ReadDestroy
    \/ ReadPublish

----------------------------------------------------------------------------
(* LockFreeStack<T>                                                         *)

MaxPush == 3
MaxPop == 3

\* nullptr
Null == 0
\* a pointer that is not the address of any Node: what the bytes of a freed
\* node may hold once the allocator has written over them
Wild == 0 - 1

\* the addresses operator new hands out
StAddrs == 1 .. MaxPush
StAllThreads == {1, 2}

\* new Node(value): an address not in use - a fresh one, or one freed before
StAllocatable ==
    {a \in StAddrs : st_heap[a].state = "freed"}
    \cup (LET unused == {a \in StAddrs : st_heap[a].state = "unused"}
          IN  IF unused = {} THEN {} ELSE {MinOf(unused)})

\* What a read of field f of the node at a yields: the field of a live node;
\* the stale bytes or garbage (g) of a freed one.
StField(a, f, g) == IF st_heap[a].state = "live" THEN {st_heap[a][f]}
                    ELSE {st_heap[a][f], g}

\* try_pop line 40, delete old_head by thread t: the other threads that
\* hold the address in old_head, inside their loop, now hold a pointer to a
\* freed node, whatever is allocated there later
StStaleAfterFree(t) ==
    st_stale \cup {u \in st_threads \ {t} :
                      /\ st_pc[u] \in {"t_test", "t_cas"}
                      /\ st_old_head[u] = st_old_head[t]}

\* The mutant of StPopNewHead that unlinks the whole chain.
StPopNewHead_DropsAll(n) == Null

\* try_pop line 32: the value the CAS stores into head, old_head->next
StPopNewHead(n) == n

\* push line 23: the value stored into new_node->next
StPushLink(h) == h

StInitWith(T) ==
    /\ st_threads = T
    /\ st_head = Null
    /\ st_heap = [a \in StAddrs |->
                    [state |-> "unused", data |-> Garbage, next |-> Null]]
    /\ st_pc = [t \in T |-> "idle"]
    /\ st_new_node = [t \in T |-> Null]
    /\ st_old_head = [t \in T |-> Null]
    /\ st_next = [t \in T |-> Null]
    /\ st_result = [t \in T |-> Garbage]
    /\ st_value = 1
    /\ st_pops = 0
    /\ st_uaf = FALSE
    /\ st_stale = {}
    /\ st_crashed = FALSE

StIdle ==
    /\ st_threads = {}
    /\ st_head = Null
    /\ st_heap = <<>>
    /\ st_pc = <<>>
    /\ st_new_node = <<>>
    /\ st_old_head = <<>>
    /\ st_next = <<>>
    /\ st_result = <<>>
    /\ st_value = 1
    /\ st_pops = 0
    /\ st_uaf = FALSE
    /\ st_stale = {}
    /\ st_crashed = FALSE

\* push line 22: Node* new_node = new Node(value)
PushAlloc(t) ==
    /\ t \in st_threads
    /\ ~st_crashed
    /\ st_pc[t] = "idle"
    /\ st_value <= MaxPush
    /\ \E a \in StAllocatable :
          /\ st_heap' = [st_heap EXCEPT ![a] =
                            [state |-> "live", data |-> st_value, next |-> Null]]
          /\ st_new_node' = [st_new_node EXCEPT ![t] = a]
    /\ st_value' = st_value + 1
    /\ st_pc' = [st_pc EXCEPT ![t] = "p_load"]
    /\ UNCHANGED <<st_threads, st_head, st_old_head, st_next, st_result,
                   st_pops, st_uaf, st_crashed, hist>>
    /\ UNCHANGED notST
    /\ UNCHANGED st_stale

\* push line 23: new_node->next = head.load()
PushLoad(t) ==
    /\ t \in st_threads
    /\ ~st_crashed
    /\ st_pc[t] = "p_load"
    /\ st_heap' = [st_heap EXCEPT ![st_new_node[t]].next = StPushLink(st_head)]
    /\ st_pc' = [st_pc EXCEPT ![t] = "p_cas"]
    /\ UNCHANGED <<st_threads, st_head, st_new_node, st_old_head, st_next,
                   st_result, st_value, st_pops, st_uaf, st_crashed, hist>>
    /\ UNCHANGED notST
    /\ UNCHANGED st_stale

\* push line 25: head.compare_exchange_weak(new_node->next, new_node)
PushCas(t) ==
    /\ t \in st_threads
    /\ ~st_crashed
    /\ st_pc[t] = "p_cas"
    /\ \/ /\ st_head = st_heap[st_new_node[t]].next
          /\ st_head' = st_new_node[t]
          /\ st_pc' = [st_pc EXCEPT ![t] = "idle"]
          /\ hist' = Append3(hist, "push", st_heap[st_new_node[t]].data, t)
          /\ UNCHANGED st_heap
       \/ \* failed, or failed spuriously: new_node->next = head, again
          /\ st_heap' = [st_heap EXCEPT ![st_new_node[t]].next = st_head]
          /\ UNCHANGED <<st_head, st_pc, hist>>
    /\ UNCHANGED <<st_threads, st_new_node, st_old_head, st_next, st_result,
                   st_value, st_pops, st_uaf, st_crashed>>
    /\ UNCHANGED notST
    /\ UNCHANGED st_stale

\* try_pop line 29: Node* old_head = head.load()
PopLoad(t) ==
    /\ t \in st_threads
    /\ ~st_crashed
    /\ st_pc[t] = "idle"
    /\ st_pops < MaxPop
    /\ st_pops' = st_pops + 1
    /\ st_old_head' = [st_old_head EXCEPT ![t] = st_head]
    /\ st_pc' = [st_pc EXCEPT ![t] = "t_test"]
    /\ UNCHANGED <<st_threads, st_head, st_heap, st_new_node, st_next,
                   st_result, st_value, st_uaf, st_crashed, hist>>
    /\ UNCHANGED notST
    /\ st_stale' = st_stale \ {t}

\* try_pop lines 31-36: old_head != nullptr, the read of old_head->next;
\* return false when old_head is null
PopTest(t) ==
    /\ t \in st_threads
    /\ ~st_crashed
    /\ st_pc[t] = "t_test"
    /\ IF st_old_head[t] = Null
       THEN /\ st_pc' = [st_pc EXCEPT ![t] = "idle"]
            /\ hist' = Append3(hist, "pop_empty", Garbage, t)
            /\ UNCHANGED <<st_next, st_uaf, st_crashed>>
       ELSE IF st_old_head[t] = Wild
       THEN /\ st_crashed' = TRUE
            /\ UNCHANGED <<st_pc, st_next, st_uaf, hist>>
       ELSE /\ \E n \in StField(st_old_head[t], "next", Wild) :
                  st_next' = [st_next EXCEPT ![t] = n]
            /\ st_uaf' = (st_uaf \/ st_heap[st_old_head[t]].state # "live")
            /\ st_pc' = [st_pc EXCEPT ![t] = "t_cas"]
            /\ UNCHANGED <<st_crashed, hist>>
    /\ UNCHANGED <<st_threads, st_head, st_heap, st_new_node, st_old_head,
                   st_result, st_value, st_pops>>
    /\ UNCHANGED notST
    /\ UNCHANGED st_stale

\* try_pop line 32: head.compare_exchange_weak(old_head, old_head->next)
PopCas(t) ==
    /\ t \in st_threads
    /\ ~st_crashed
    /\ st_pc[t] = "t_cas"
    /\ \/ /\ st_head = st_old_head[t]
          /\ st_head' = StPopNewHead(st_next[t])
          /\ st_pc' = [st_pc EXCEPT ![t] = "t_data"]
          /\ UNCHANGED <<st_old_head, st_stale>>
       \/ \* failed, or failed spuriously: old_head = head, test again
          /\ st_old_head' = [st_old_head EXCEPT ![t] = st_head]
          /\ st_pc' = [st_pc EXCEPT ![t] = "t_test"]
          /\ st_stale' = st_stale \ {t}
          /\ UNCHANGED st_head
    /\ UNCHANGED <<st_threads, st_heap, st_new_node, st_next, st_result,
                   st_value, st_pops, st_uaf, st_crashed, hist>>
    /\ UNCHANGED notST

\* try_pop line 39: result = old_head->data
PopData(t) ==
    /\ t \in st_threads
    /\ ~st_crashed
    /\ st_pc[t] = "t_data"
    /\ \E v \in StField(st_old_head[t], "data", Garbage) :
          st_result' = [st_result EXCEPT ![t] = v]
    /\ st_uaf' = (st_uaf \/ st_heap[st_old_head[t]].state # "live")
    /\ st_pc' = [st_pc EXCEPT ![t] = "t_delete"]
    /\ UNCHANGED <<st_threads, st_head, st_heap, st_new_node, st_old_head,
                   st_next, st_value, st_pops, st_crashed, hist>>
    /\ UNCHANGED notST
    /\ UNCHANGED st_stale

\* try_pop lines 40-43: delete old_head; return true
PopDelete(t) ==
    /\ t \in st_threads
    /\ ~st_crashed
    /\ st_pc[t] = "t_delete"
    /\ IF st_heap[st_old_head[t]].state = "live"
       THEN /\ st_heap' = [st_heap EXCEPT ![st_old_head[t]].state = "freed"]
            /\ st_pc' = [st_pc EXCEPT ![t] = "idle"]
            /\ hist' = Append3(hist, "pop", st_result[t], t)
            /\ st_stale' = StStaleAfterFree(t)
            /\ UNCHANGED st_crashed
       ELSE \* double free
            /\ st_crashed' = TRUE
            /\ UNCHANGED <<st_heap, st_pc, st_stale, hist>>
    /\ UNCHANGED <<st_threads, st_head, st_new_node, st_old_head, st_next,
                   st_result, st_value, st_pops, st_uaf>>
    /\ UNCHANGED notST

StNext ==
    \E t \in StAllThreads :
        \/ PushAlloc(t) \/ PushLoad(t) \/ PushCas(t)
        \/ PopLoad(t) \/ PopTest(t) \/ PopCas(t) \/ PopData(t) \/ PopDelete(t)

----------------------------------------------------------------------------
(* LockFreeQueue<T>                                                         *)

MaxLqPush == 3
MaxLqPop == 2

\* the addresses operator new hands out: the dummy and one node per push
LqAddrs == 1 .. (MaxLqPush + 1)
LqThreads == {1, 2}

\* a further producer, which stops for ever between its two CAS of push
LqStalled == 3
LqAllThreads == LqThreads \cup {LqStalled}

\* new Node(value): an address not in use - a fresh one, or one freed before
LqAllocatable ==
    {a \in LqAddrs : lq_heap[a].state = "freed"}
    \cup (LET unused == {a \in LqAddrs : lq_heap[a].state = "unused"}
          IN  IF unused = {} THEN {} ELSE {MinOf(unused)})

\* What a read of field f of the node at a yields: the field of a live node;
\* the stale bytes or garbage (g) of a freed one.
LqField(a, f, g) == IF lq_heap[a].state = "live" THEN {lq_heap[a][f]}
                    ELSE {lq_heap[a][f], g}

LqFreed(a) == lq_heap[a].state # "live"

\* pop line 515, delete old_head: the pointers other threads hold to the node
\* at a now point to a freed node, whatever is allocated there later
LqStaleAfterFree(a) ==
    [u \in LqAllThreads |->
        lq_stale[u]
        \cup (IF lq_old_tail[u] = a THEN {"old_tail"} ELSE {})
        \cup (IF lq_old_head[u] = a THEN {"old_head"} ELSE {})
        \cup (IF lq_head_next[u] = a THEN {"head_next"} ELSE {})]

\* LockFreeQueue(): the dummy node, data T{}
LqInit ==
    /\ lq_head = 1
    /\ lq_tail = 1
    /\ lq_heap = [a \in LqAddrs |->
                    IF a = 1
                    THEN [state |-> "live", data |-> Garbage, next |-> Null]
                    ELSE [state |-> "unused", data |-> Garbage, next |-> Null]]
    /\ lq_pc = [t \in LqAllThreads |-> "idle"]
    /\ lq_new_node = [t \in LqAllThreads |-> Null]
    /\ lq_old_tail = [t \in LqAllThreads |-> Null]
    /\ lq_tail_next = [t \in LqAllThreads |-> Null]
    /\ lq_old_head = [t \in LqAllThreads |-> Null]
    /\ lq_head_next = [t \in LqAllThreads |-> Null]
    /\ lq_result = [t \in LqAllThreads |-> Garbage]
    /\ lq_value = 1
    /\ lq_pops = 0
    /\ lq_uaf = FALSE
    /\ lq_stale = [t \in LqAllThreads |-> {}]
    /\ lq_crashed = FALSE

LqIdle ==
    /\ lq_head = Null
    /\ lq_tail = Null
    /\ lq_heap = <<>>
    /\ lq_pc = <<>>
    /\ lq_new_node = <<>>
    /\ lq_old_tail = <<>>
    /\ lq_tail_next = <<>>
    /\ lq_old_head = <<>>
    /\ lq_head_next = <<>>
    /\ lq_result = <<>>
    /\ lq_value = 1
    /\ lq_pops = 0
    /\ lq_uaf = FALSE
    /\ lq_stale = <<>>
    /\ lq_crashed = FALSE

\* push line 475: Node* new_node = new Node(value)
QAlloc(t) ==
    /\ ~lq_crashed
    /\ lq_pc[t] = "idle"
    /\ lq_value <= MaxLqPush
    /\ \E a \in LqAllocatable :
          /\ lq_heap' = [lq_heap EXCEPT ![a] =
                            [state |-> "live", data |-> lq_value, next |-> Null]]
          /\ lq_new_node' = [lq_new_node EXCEPT ![t] = a]
    /\ lq_value' = lq_value + 1
    /\ lq_pc' = [lq_pc EXCEPT ![t] = "q_tail"]
    /\ UNCHANGED <<lq_head, lq_tail, lq_old_tail, lq_tail_next, lq_old_head,
                   lq_head_next, lq_result, lq_pops, lq_uaf, lq_crashed, hist>>
    /\ UNCHANGED lq_stale
    /\ UNCHANGED notLQ

\* push line 479: old_tail = tail.load()
QLoadTail(t) ==
    /\ ~lq_crashed
    /\ lq_pc[t] = "q_tail"
    /\ lq_old_tail' = [lq_old_tail EXCEPT ![t] = lq_tail]
    /\ lq_pc' = [lq_pc EXCEPT ![t] = "q_next"]
    /\ UNCHANGED <<lq_head, lq_tail, lq_heap, lq_new_node, lq_tail_next,
                   lq_old_head, lq_head_next, lq_result, lq_value, lq_pops,
                   lq_uaf, lq_crashed, hist>>
    /\ lq_stale' = [lq_stale EXCEPT ![t] = @ \ {"old_tail"}]
    /\ UNCHANGED notLQ

\* push line 480: Node* tail_next = old_tail->next
QLoadNext(t) ==
    /\ ~lq_crashed
    /\ lq_pc[t] = "q_next"
    /\ IF lq_old_tail[t] \in {Null, Wild}
       THEN /\ lq_crashed' = TRUE
            /\ UNCHANGED <<lq_tail_next, lq_uaf, lq_pc>>
       ELSE /\ \E n \in LqField(lq_old_tail[t], "next", Wild) :
                  lq_tail_next' = [lq_tail_next EXCEPT ![t] = n]
            /\ lq_uaf' = (lq_uaf \/ LqFreed(lq_old_tail[t])
                          \/ "old_tail" \in lq_stale[t])
            /\ lq_pc' = [lq_pc EXCEPT ![t] = "q_check"]
            /\ UNCHANGED lq_crashed
    /\ UNCHANGED <<lq_head, lq_tail, lq_heap, lq_new_node, lq_old_tail,
                   lq_old_head, lq_head_next, lq_result, lq_value, lq_pops,
                   hist>>
    /\ UNCHANGED lq_stale
    /\ UNCHANGED notLQ

\* push lines 482-483, 487: old_tail == tail.load(), tail_next == nullptr
QCheck(t) ==
    /\ ~lq_crashed
    /\ lq_pc[t] = "q_check"
    /\ lq_pc' = [lq_pc EXCEPT ![t] =
                    IF lq_old_tail[t] # lq_tail THEN "q_tail"
                    ELSE IF lq_tail_next[t] = Null THEN "q_link"
                    ELSE "q_help"]
    /\ UNCHANGED <<lq_head, lq_tail, lq_heap, lq_new_node, lq_old_tail,
                   lq_tail_next, lq_old_head, lq_head_next, lq_result,
                   lq_value, lq_pops, lq_uaf, lq_crashed, hist>>
    /\ UNCHANGED lq_stale
    /\ UNCHANGED notLQ

\* push lines 484-486: old_tail->next.compare_exchange_weak(tail_next, new_node)
QLink(t) ==
    /\ ~lq_crashed
    /\ lq_pc[t] = "q_link"
    /\ lq_uaf' = (lq_uaf \/ LqFreed(lq_old_tail[t])
                          \/ "old_tail" \in lq_stale[t])
    /\ \/ /\ \E n \in LqField(lq_old_tail[t], "next", Wild) : n = lq_tail_next[t]
          /\ lq_heap' = [lq_heap EXCEPT ![lq_old_tail[t]].next = lq_new_node[t]]
          /\ lq_pc' = [lq_pc EXCEPT ![t] = "q_swing"]
          /\ hist' = Append3(hist, "push", lq_heap[lq_new_node[t]].data, t)
       \/ \* failed, or failed spuriously: retry the loop
          /\ lq_pc' = [lq_pc EXCEPT ![t] = "q_tail"]
          /\ UNCHANGED <<lq_heap, hist>>
    /\ UNCHANGED <<lq_head, lq_tail, lq_new_node, lq_old_tail, lq_tail_next,
                   lq_old_head, lq_head_next, lq_result, lq_value, lq_pops,
                   lq_crashed>>
    /\ UNCHANGED lq_stale
    /\ UNCHANGED notLQ

\* push line 488: tail.compare_exchange_weak(old_tail, tail_next)
QHelp(t) ==
    /\ ~lq_crashed
    /\ lq_pc[t] = "q_help"
    /\ \/ /\ lq_tail = lq_old_tail[t]
          /\ lq_tail' = lq_tail_next[t]
       \/ UNCHANGED lq_tail
    /\ lq_pc' = [lq_pc EXCEPT ![t] = "q_tail"]
    /\ UNCHANGED <<lq_head, lq_heap, lq_new_node, lq_old_tail, lq_tail_next,
                   lq_old_head, lq_head_next, lq_result, lq_value, lq_pops,
                   lq_uaf, lq_crashed, hist>>
    /\ UNCHANGED lq_stale
    /\ UNCHANGED notLQ

\* push lines 493-495: tail.compare_exchange_weak(old_tail, new_node); return
QSwing(t) ==
    /\ ~lq_crashed
    /\ lq_pc[t] = "q_swing"
    /\ \/ /\ lq_tail = lq_old_tail[t]
          /\ lq_tail' = lq_new_node[t]
       \/ UNCHANGED lq_tail
    /\ lq_pc' = [lq_pc EXCEPT ![t] = "idle"]
    /\ UNCHANGED <<lq_head, lq_heap, lq_new_node, lq_old_tail, lq_tail_next,
                   lq_old_head, lq_head_next, lq_result, lq_value, lq_pops,
                   lq_uaf, lq_crashed, hist>>
    /\ UNCHANGED lq_stale
    /\ UNCHANGED notLQ

\* pop: the call begins
OStart(t) ==
    /\ ~lq_crashed
    /\ lq_pc[t] = "idle"
    /\ lq_pops < MaxLqPop
    /\ lq_pops' = lq_pops + 1
    /\ lq_pc' = [lq_pc EXCEPT ![t] = "o_head"]
    /\ hist' = Append3(hist, "pop_call", Garbage, t)
    /\ UNCHANGED <<lq_head, lq_tail, lq_heap, lq_new_node, lq_old_tail,
                   lq_tail_next, lq_old_head, lq_head_next, lq_result,
                   lq_value, lq_uaf, lq_crashed>>
    /\ UNCHANGED lq_stale
    /\ UNCHANGED notLQ

\* pop line 501: old_head = head.load()
OLoadHead(t) ==
    /\ ~lq_crashed
    /\ lq_pc[t] = "o_head"
    /\ lq_old_head' = [lq_old_head EXCEPT ![t] = lq_head]
    /\ lq_pc' = [lq_pc EXCEPT ![t] = "o_tail"]
    /\ UNCHANGED <<lq_head, lq_tail, lq_heap, lq_new_node, lq_old_tail,
                   lq_tail_next, lq_head_next, lq_result, lq_value, lq_pops,
                   lq_uaf, lq_crashed, hist>>
    /\ lq_stale' = [lq_stale EXCEPT ![t] = @ \ {"old_head"}]
    /\ UNCHANGED notLQ

\* pop line 502: Node* old_tail = tail.load()
OLoadTail(t) ==
    /\ ~lq_crashed
    /\ lq_pc[t] = "o_tail"
    /\ lq_old_tail' = [lq_old_tail EXCEPT ![t] = lq_tail]
    /\ lq_pc' = [lq_pc EXCEPT ![t] = "o_next"]
    /\ UNCHANGED <<lq_head, lq_tail, lq_heap, lq_new_node, lq_tail_next,
                   lq_old_head, lq_head_next, lq_result, lq_value, lq_pops,
                   lq_uaf, lq_crashed, hist>>
    /\ lq_stale' = [lq_stale EXCEPT ![t] = @ \ {"old_tail"}]
    /\ UNCHANGED notLQ

\* pop line 503: Node* head_next = old_head->next
OLoadNext(t) ==
    /\ ~lq_crashed
    /\ lq_pc[t] = "o_next"
    /\ IF lq_old_head[t] \in {Null, Wild}
       THEN /\ lq_crashed' = TRUE
            /\ UNCHANGED <<lq_head_next, lq_uaf, lq_pc>>
       ELSE /\ \E n \in LqField(lq_old_head[t], "next", Wild) :
                  lq_head_next' = [lq_head_next EXCEPT ![t] = n]
            /\ lq_uaf' = (lq_uaf \/ LqFreed(lq_old_head[t])
                          \/ "old_head" \in lq_stale[t])
            /\ lq_pc' = [lq_pc EXCEPT ![t] = "o_check"]
            /\ UNCHANGED lq_crashed
    /\ UNCHANGED <<lq_head, lq_tail, lq_heap, lq_new_node, lq_old_tail,
                   lq_tail_next, lq_old_head, lq_result, lq_value, lq_pops,
                   hist>>
    /\ lq_stale' = [lq_stale EXCEPT ![t] = @ \ {"head_next"}]
    /\ UNCHANGED notLQ

\* pop lines 505-510, 512: old_head == head.load(), old_head == old_tail,
\* head_next == nullptr: return false
OCheck(t) ==
    /\ ~lq_crashed
    /\ lq_pc[t] = "o_check"
    /\ IF lq_old_head[t] # lq_head
       THEN /\ lq_pc' = [lq_pc EXCEPT ![t] = "o_head"]
            /\ UNCHANGED hist
       ELSE IF lq_old_head[t] # lq_old_tail[t]
       THEN /\ lq_pc' = [lq_pc EXCEPT ![t] = "o_cas"]
            /\ UNCHANGED hist
       ELSE IF lq_head_next[t] = Null
       THEN /\ lq_pc' = [lq_pc EXCEPT ![t] = "idle"]
            /\ hist' = Append3(hist, "pop_empty", Garbage, t)
       ELSE /\ lq_pc' = [lq_pc EXCEPT ![t] = "o_help"]
            /\ UNCHANGED hist
    /\ UNCHANGED <<lq_head, lq_tail, lq_heap, lq_new_node, lq_old_tail,
                   lq_tail_next, lq_old_head, lq_head_next, lq_result,
                   lq_value, lq_pops, lq_uaf, lq_crashed>>
    /\ UNCHANGED lq_stale
    /\ UNCHANGED notLQ

\* pop line 511: tail.compare_exchange_weak(old_tail, head_next)
OHelp(t) ==
    /\ ~lq_crashed
    /\ lq_pc[t] = "o_help"
    /\ \/ /\ lq_tail = lq_old_tail[t]
          /\ lq_tail' = lq_head_next[t]
       \/ UNCHANGED lq_tail
    /\ lq_pc' = [lq_pc EXCEPT ![t] = "o_head"]
    /\ UNCHANGED <<lq_head, lq_heap, lq_new_node, lq_old_tail, lq_tail_next,
                   lq_old_head, lq_head_next, lq_result, lq_value, lq_pops,
                   lq_uaf, lq_crashed, hist>>
    /\ UNCHANGED lq_stale
    /\ UNCHANGED notLQ

\* pop line 513: head.compare_exchange_weak(old_head, head_next)
OCas(t) ==
    /\ ~lq_crashed
    /\ lq_pc[t] = "o_cas"
    /\ \/ /\ lq_head = lq_old_head[t]
          /\ lq_head' = lq_head_next[t]
          /\ lq_pc' = [lq_pc EXCEPT ![t] = "o_data"]
          /\ hist' = Append3(hist, "take", Garbage, t)
       \/ \* failed, or failed spuriously: retry the loop
          /\ lq_pc' = [lq_pc EXCEPT ![t] = "o_head"]
          /\ UNCHANGED <<lq_head, hist>>
    /\ UNCHANGED <<lq_tail, lq_heap, lq_new_node, lq_old_tail, lq_tail_next,
                   lq_old_head, lq_head_next, lq_result, lq_value, lq_pops,
                   lq_uaf, lq_crashed>>
    /\ UNCHANGED lq_stale
    /\ UNCHANGED notLQ

\* pop line 514: result = head_next->data
OData(t) ==
    /\ ~lq_crashed
    /\ lq_pc[t] = "o_data"
    /\ IF lq_head_next[t] \in {Null, Wild}
       THEN /\ lq_crashed' = TRUE
            /\ UNCHANGED <<lq_result, lq_uaf, lq_pc>>
       ELSE /\ \E v \in LqField(lq_head_next[t], "data", Garbage) :
                  lq_result' = [lq_result EXCEPT ![t] = v]
            /\ lq_uaf' = (lq_uaf \/ LqFreed(lq_head_next[t])
                          \/ "head_next" \in lq_stale[t])
            /\ lq_pc' = [lq_pc EXCEPT ![t] = "o_delete"]
            /\ UNCHANGED lq_crashed
    /\ UNCHANGED <<lq_head, lq_tail, lq_heap, lq_new_node, lq_old_tail,
                   lq_tail_next, lq_old_head, lq_head_next, lq_value, lq_pops,
                   hist>>
    /\ UNCHANGED lq_stale
    /\ UNCHANGED notLQ

\* pop lines 515-517: delete old_head; return true
ODelete(t) ==
    /\ ~lq_crashed
    /\ lq_pc[t] = "o_delete"
    /\ IF lq_heap[lq_old_head[t]].state = "live"
       THEN /\ lq_heap' = [lq_heap EXCEPT ![lq_old_head[t]].state = "freed"]
            /\ lq_pc' = [lq_pc EXCEPT ![t] = "idle"]
            /\ hist' = Append3(hist, "pop", lq_result[t], t)
            /\ lq_stale' = LqStaleAfterFree(lq_old_head[t])
            /\ UNCHANGED lq_crashed
       ELSE \* double free
            /\ lq_crashed' = TRUE
            /\ UNCHANGED <<lq_heap, lq_pc, lq_stale, hist>>
    /\ UNCHANGED <<lq_head, lq_tail, lq_new_node, lq_old_tail, lq_tail_next,
                   lq_old_head, lq_head_next, lq_result, lq_value, lq_pops,
                   lq_uaf>>
    /\ UNCHANGED notLQ

LqThreadStep(t) ==
    \/ QAlloc(t) \/ QLoadTail(t) \/ QLoadNext(t) \/ QCheck(t) \/ QLink(t)
    \/ QHelp(t) \/ QSwing(t)
    \/ OStart(t) \/ OLoadHead(t) \/ OLoadTail(t) \/ OLoadNext(t)
    \/ OCheck(t) \/ OHelp(t) \/ OCas(t) \/ OData(t) \/ ODelete(t)

LqNext == \E t \in LqThreads : LqThreadStep(t)

----------------------------------------------------------------------------
(* Specifications                                                           *)

P2Next == MPMCQueue_ctor \/ RingBuffer_ctor

InitPow2 == P2Init /\ LqIdle /\ MQIdle /\ RBIdle /\ StIdle /\ hist = <<>>

SpecPow2 == InitPow2 /\ [][P2Next]_vars

\* MPMCQueue whose element type never throws
InitMPMC == MQInit /\ LqIdle /\ P2Idle /\ RBIdle /\ StIdle /\ hist = <<>>

SpecMPMC == InitMPMC /\ [][MQNext]_vars

\* MPMCQueue whose element type may throw from its constructors
MQNextOrThrow == MQNext \/ MQThrowNext

SpecMPMCThrow == InitMPMC /\ [][MQNextOrThrow]_vars

\* MPMCQueue used by two threads while a third calls size() once; the run
\* is followed until size() has returned
MQUntilSizeReturned == mq_size_pc # "returned" /\ MQNext

MQNextOrSize == MQUntilSizeReturned \/ MQSizeNext

SpecMPMCSize == InitMPMC /\ [][MQNextOrSize]_vars

\* RingBuffer with its one producer and its one consumer
InitRing == RBInit /\ LqIdle /\ P2Idle /\ MQIdle /\ StIdle /\ hist = <<>>

SpecRing == InitRing /\ [][RBNext]_vars

\* LockFreeStack called by one thread
InitStackSeq == StInitWith({1}) /\ LqIdle /\ P2Idle /\ MQIdle /\ RBIdle /\ hist = <<>>

SpecStackSeq == InitStackSeq /\ [][StNext]_vars

\* LockFreeStack called by two threads
InitStack == StInitWith(StAllThreads) /\ LqIdle /\ P2Idle /\ MQIdle /\ RBIdle /\ hist = <<>>

SpecStack == InitStack /\ [][StNext]_vars

\* MPMCQueue used by two threads and then destroyed
MQNextOrDtor == MQNext \/ MQDtorNext

SpecMPMCDtor == InitMPMC /\ [][MQNextOrDtor]_vars

\* LockFreeQueue called by two threads
InitLFQ == LqInit /\ P2Idle /\ MQIdle /\ RBIdle /\ StIdle /\ hist = <<>>

SpecLFQ == InitLFQ /\ [][LqNext]_vars

\* LockFreeQueue with a third thread that calls push once and is never
\* scheduled again after line 484 has linked its node (line 493 never runs);
\* the other threads make their calls once it has stopped
LqProducerStalled == lq_pc[LqStalled] = "q_swing"

LqStalledPush ==
    \/ QAlloc(LqStalled) \/ QLoadTail(LqStalled) \/ QLoadNext(LqStalled)
    \/ QCheck(LqStalled) \/ QLink(LqStalled)

LqOthersAfterStall == LqProducerStalled /\ LqNext

LqStallNext == LqStalledPush \/ LqOthersAfterStall

SpecLFQStall == InitLFQ /\ [][LqStallNext]_vars

\* the same with a single other thread, scheduled fairly: it keeps taking
\* steps, and a compare_exchange_weak whose comparison holds again and again
\* does not fail spuriously for ever
LqSoloThread == 1

LqSoloAfterStall == LqProducerStalled /\ LqThreadStep(LqSoloThread)

LqStallSoloNext == LqStalledPush \/ LqSoloAfterStall

LqSoloFair ==
    /\ WF_vars(LqStalledPush)
    /\ SF_vars(QLink(LqStalled) /\ lq_pc'[LqStalled] = "q_swing")
    /\ WF_vars(LqSoloAfterStall)
    /\ SF_vars(QLink(LqSoloThread) /\ lq_pc'[LqSoloThread] = "q_swing")
    /\ SF_vars(QHelp(LqSoloThread) /\ lq_tail' # lq_tail)
    /\ SF_vars(OHelp(LqSoloThread) /\ lq_tail' # lq_tail)
    /\ SF_vars(OCas(LqSoloThread) /\ lq_pc'[LqSoloThread] = "o_data")

SpecLFQStallSolo == InitLFQ /\ [][LqStallSoloNext]_vars /\ LqSoloFair

----------------------------------------------------------------------------
(* Reading the history                                                      *)

IsPrefix(a, b) == /\ Len(a) <= Len(b)
                  /\ \A i \in 1 .. Len(a) : a[i] = b[i]

\* the values of the events op, in the order they happened
RECURSIVE ValuesOf(_, _)
ValuesOf(h, op) ==
    IF h = <<>> THEN <<>>
    ELSE IF Head(h)[1] = op THEN <<Head(h)[2]>> \o ValuesOf(Tail(h), op)
    ELSE ValuesOf(Tail(h), op)

HistIdx(op) == {i \in DOMAIN hist : hist[i][1] = op}

----------------------------------------------------------------------------
(* Construction                                                             *)

\* c is the smallest power of two that is >= k
SmallestPow2GE(c, k) ==
    /\ Cardinality(c) = 1
    /\ LET b == MaxOf(c) IN
         /\ ULe(k, {b})
         /\ b > 0 => ~ULe(k, {b - 1})

TwoTo63 == {Width - 1}

\* C9 as stated: for every requested capacity k, capacity() is the smallest
\* power of two >= k (1 when k = 0) and mask_ = capacity() - 1.
C9_CapacityIsNextPow2 ==
    p2_class # "none" =>
        /\ SmallestPow2GE(p2_capacity_, p2_k)
        /\ p2_k = {} => p2_capacity_ = FromNat(1)
        /\ p2_mask_ = Dec(p2_capacity_)

\* C9 amended: the same for every k <= 2^63; for a larger k the size_t
\* arithmetic wraps around and capacity() is 0.
C9_CapacityIsNextPow2UpTo2p63 ==
    p2_class # "none" =>
        /\ ULe(p2_k, TwoTo63) =>
              /\ SmallestPow2GE(p2_capacity_, p2_k)
              /\ p2_k = {} => p2_capacity_ = FromNat(1)
        /\ ~ULe(p2_k, TwoTo63) => p2_capacity_ = {}
        /\ p2_mask_ = Dec(p2_capacity_)

\* a queue constructed with 5 reports 8, and a ring buffer constructed with 8
C9_Witness ==
    \/ p2_class = "MPMCQueue" /\ p2_k = FromNat(5) /\ p2_capacity_ = FromNat(8)
       /\ p2_mask_ = FromNat(7)
    \/ p2_class = "RingBuffer" /\ p2_k = FromNat(8) /\ p2_capacity_ = FromNat(8)
       /\ p2_mask_ = FromNat(7)

----------------------------------------------------------------------------
(* MPMCQueue                                                                *)

MQEnqPcs == {"e_seq", "e_cas", "e_reload", "e_construct", "e_publish"}

\* the values stored by a successful try_enqueue, or constructed by one that
\* is about to publish
MQStored == {hist[i][2] : i \in HistIdx("enq")}
            \cup {mq_arg[t] : t \in {u \in MQThreads : mq_pc[u] = "e_publish"}}

\* C1: every value a try_dequeue returned was stored by a try_enqueue (each
\* call stores a value of its own), and no value is returned twice.
C1_NoDuplicationNoFabrication ==
    /\ \A i \in HistIdx("deq") : hist[i][2] \in MQStored
    /\ \A i, j \in HistIdx("deq") : hist[i][2] = hist[j][2] => i = j

\* C2: at most capacity() elements are resident and the cursors are at most
\* capacity() apart.
C2_AtMostCapacity ==
    /\ MQResident <= mq_capacity_
    /\ enqueue_pos_ - dequeue_pos_ <= mq_capacity_

\* the values of the successful try_enqueue calls of the single producer, in
\* call order, with the one it has constructed and is about to publish
MQProduced ==
    ValuesOf(hist, "enq")
    \o (IF mq_pc[1] = "e_publish" THEN <<mq_arg[1]>> ELSE <<>>)

\* C6: with one producer thread and one consumer thread, the values dequeued
\* are a prefix of the values enqueued.
C6_SpscFifo ==
    mq_role[1] = "producer" => IsPrefix(ValuesOf(hist, "deq"), MQProduced)

\* C10: a try_enqueue that runs alone on a queue holding capacity() elements
\* returns false and changes neither cursor, no sequence number and no element.
C10_FullEnqueueChangesNothing ==
    [][\A t \in MQThreads :
          (mq_quiet[t] /\ mq_pc[t] \in MQEnqPcs /\ mq_pc'[t] # mq_pc[t]) =>
              /\ UNCHANGED <<enqueue_pos_, dequeue_pos_, mq_sequence, mq_storage>>
              /\ mq_pc'[t] = "idle"
              /\ mq_ret'[t] = "false"]_vars

MQDeqPcs == {"d_seq", "d_cas", "d_reload", "d_move", "d_destroy", "d_publish"}

\* C11: a try_dequeue that runs alone on a queue holding no element reports
\* empty and changes neither cursor, no sequence number and not its output.
C11_EmptyDequeueChangesNothing ==
    [][\A t \in MQThreads :
          (mq_quiet[t] /\ mq_pc[t] \in MQDeqPcs /\ mq_pc'[t] # mq_pc[t]) =>
              /\ UNCHANGED <<enqueue_pos_, dequeue_pos_, mq_sequence,
                             mq_storage, mq_result>>
              /\ mq_pc'[t] = "idle"
              /\ mq_ret'[t] = "false"]_vars

\* a try_dequeue has run alone on an empty queue that was used before
C11_Witness ==
    \E t \in MQThreads :
        /\ mq_quiet[t] /\ mq_pc[t] = "d_seq"
        /\ Len(ValuesOf(hist, "deq")) >= 2
        /\ mq_capacity_ = 2

MQAllIdle == \A t \in MQThreads : mq_pc[t] = "idle"

\* the positions claimed by try_emplace and not yet claimed by a try_dequeue
MQPending == {p \in 0 .. (MaxEnq + 1) : dequeue_pos_ <= p /\ p < enqueue_pos_}

\* C12: once the element constructor has thrown in try_emplace, the queue
\* stays usable: no try_dequeue returns an element that was never constructed,
\* and when no call is in flight every position a try_dequeue will claim next
\* is readable (sequence == pos + 1), so the call returns and the elements
\* enqueued after the failure come out.
C12_ThrowLeavesQueueUsable ==
    (\E i \in DOMAIN hist : hist[i][1] = "enq_throw") =>
        /\ \A i \in HistIdx("deq") : hist[i][2] \in MQStored
        /\ MQAllIdle =>
              \A p \in MQPending : mq_sequence[MQNode(p)] = p + 1

\* the same without the precondition that a constructor has thrown
C12_QueueUsable ==
    /\ \A i \in HistIdx("deq") : hist[i][2] \in MQStored
    /\ MQAllIdle => \A p \in MQPending : mq_sequence[MQNode(p)] = p + 1

\* C13: a call that runs alone returns after a bounded number of iterations.
\* Running alone, a call leaves its loop unless it reads diff > 0 with pos
\* equal to the cursor: then the reload yields the same pos, the slot is
\* unchanged, and the iteration repeats for as long as no other thread acts.
C13_SoloCallReturns ==
    \A t \in MQThreads :
        /\ (mq_pc[t] = "e_seq" /\ mq_pos[t] = enqueue_pos_) =>
               EnqDiff(mq_sequence[MQNode(mq_pos[t])], mq_pos[t]) <= 0
        /\ (mq_pc[t] = "d_seq" /\ mq_pos[t] = dequeue_pos_) =>
               DeqDiff(mq_sequence[MQNode(mq_pos[t])], mq_pos[t]) <= 0

\* C16: ~T() runs at most once on every element and only on elements that were
\* constructed, and when the destructor has drained the queue every element
\* constructed was destroyed exactly once and no slot holds a live element.
C16_EachElementDestroyedOnce ==
    /\ mq_destroyed[Garbage] = 0
    /\ \A v \in 1 .. MaxEnq :
          /\ mq_destroyed[v] <= 1
          /\ mq_destroyed[v] = 1 => v \in MQStored
    /\ mq_dtor = "done" =>
          /\ MQResident = 0
          /\ \A v \in MQStored : mq_destroyed[v] = 1

\* the destructor has drained a queue of two slots that still held two
\* elements, after an earlier lap of the first slot
C16_Witness ==
    /\ mq_dtor = "done"
    /\ mq_capacity_ = 2
    /\ enqueue_pos_ = 3
    /\ Len(hist) >= 5
    /\ hist[1][1] = "enq" /\ hist[2][1] = "deq"
    /\ hist[3][1] = "enq" /\ hist[4][1] = "enq"

\* slot i's sequence is position + 1 for a position of slot i
MQPublished(i) == mq_sequence[i] >= 1 /\ MQNode(mq_sequence[i] - 1) = i

\* a try_dequeue has moved the element out of slot i and not yet released it
MQMovedOut(i) ==
    \E t \in MQThreads :
        mq_pc[t] \in {"d_destroy", "d_publish"} /\ MQNode(mq_pos[t]) = i

\* the number of published-but-unconsumed elements
MQPublishedUnconsumed ==
    Cardinality({i \in MQSlots : MQPublished(i) /\ ~MQMovedOut(i)})

\* try_emplace calls between their CAS and their store of the sequence, and
\* try_dequeue calls between their CAS and their move
MQClaimedEnq ==
    Cardinality({t \in MQThreads : mq_pc[t] \in {"e_construct", "e_publish"}})
MQClaimedDeq == Cardinality({t \in MQThreads : mq_pc[t] = "d_move"})

\* C18 as stated: in every reachable state enqueue_pos_ - dequeue_pos_ is the
\* number of published-but-unconsumed elements.
C18_CursorsCountPublished ==
    enqueue_pos_ - dequeue_pos_ = MQPublishedUnconsumed

\* C18 amended: for a capacity of two or more, enqueue_pos_ - dequeue_pos_ is
\* the number of published-but-unconsumed elements, plus the positions
\* claimed by a try_emplace and not yet published, minus the positions
\* claimed by a try_dequeue whose element is not yet moved out; so the two
\* numbers are equal when no call is between its CAS and its store or move.
C18_CursorsCountPublishedAndClaimed ==
    mq_capacity_ >= 2 =>
        /\ enqueue_pos_ - dequeue_pos_ =
               MQPublishedUnconsumed + MQClaimedEnq - MQClaimedDeq
        /\ (MQClaimedEnq = 0 /\ MQClaimedDeq = 0) => C18_CursorsCountPublished

\* one element is published, a second position is claimed by a try_emplace
\* that has not published, and a try_dequeue has claimed the first
C18_Witness ==
    /\ mq_capacity_ = 2
    /\ enqueue_pos_ = 2
    /\ dequeue_pos_ = 1
    /\ mq_pc[1] = "e_publish"
    /\ mq_pc[2] = "d_move"

\* one step of the queue follows the slot sequence protocol
MQProtocolStep ==
       /\ \A t \in MQThreads :
            LET n == MQNode(mq_pos[t]) IN
            /\ (mq_pc[t] = "e_seq" /\ mq_pc'[t] = "e_cas") =>
                   mq_sequence[n] = mq_pos[t]
            /\ (mq_pc[t] # "e_construct" /\ mq_pc'[t] = "e_construct") =>
                   /\ mq_pc[t] = "e_cas"
                   /\ enqueue_pos_ = mq_pos[t]
                   /\ enqueue_pos_' = mq_pos[t] + 1
                   /\ mq_pos'[t] = mq_pos[t]
            /\ (mq_pc[t] = "e_construct" /\ mq_pc'[t] = "e_publish") =>
                   /\ mq_storage'[n] = [live |-> TRUE, val |-> mq_arg[t]]
                   /\ mq_sequence[n] = mq_pos[t]
            /\ (mq_pc[t] = "e_publish" /\ mq_pc'[t] = "idle") =>
                   /\ mq_sequence[n] = mq_pos[t]
                   /\ mq_sequence'[n] = mq_pos[t] + 1
            /\ (mq_pc[t] = "d_seq" /\ mq_pc'[t] = "d_cas") =>
                   mq_sequence[n] = mq_pos[t] + 1
            /\ (mq_pc[t] # "d_move" /\ mq_pc'[t] = "d_move") =>
                   /\ mq_pc[t] = "d_cas"
                   /\ dequeue_pos_ = mq_pos[t]
                   /\ dequeue_pos_' = mq_pos[t] + 1
                   /\ mq_pos'[t] = mq_pos[t]
            /\ (mq_pc[t] = "d_move" /\ mq_pc'[t] = "d_destroy") =>
                   mq_sequence[n] = mq_pos[t] + 1
            /\ (mq_pc[t] = "d_publish" /\ mq_pc'[t] = "idle") =>
                   /\ mq_sequence[n] = mq_pos[t] + 1
                   /\ mq_sequence'[n] = mq_pos[t] + mq_capacity_
       /\ \A i \in MQSlots :
            mq_sequence'[i] # mq_sequence[i] =>
                /\ mq_sequence'[i] > mq_sequence[i]
                /\ \E t \in MQThreads :
                      /\ mq_pc[t] \in {"e_publish", "d_publish"}
                      /\ mq_pc'[t] = "idle"
                      /\ MQNode(mq_pos[t]) = i
       /\ \A t \in MQThreads :
            (mq_pc[t] = "d_publish" /\ mq_pc'[t] = "idle") =>
                mq_sequence'[MQNode(mq_pos[t])] > mq_sequence[MQNode(mq_pos[t])]

\* C19: a producer goes on to the CAS only when it read sequence == pos,
\* constructs only after winning the CAS enqueue_pos_ pos -> pos + 1, and then
\* raises the sequence from pos to pos + 1; a consumer goes on to the CAS only
\* when it read sequence == pos + 1, moves out only after winning the CAS
\* dequeue_pos_ pos -> pos + 1, and then raises the sequence from pos + 1 to
\* pos + capacity; a slot's sequence changes in no other way, so it runs
\* through i, i + 1, i + capacity, i + capacity + 1, ... strictly upwards.
C19_SlotSequenceProtocol == [][MQProtocolStep]_vars

\* the threads that are constructing, moving out or destroying the element of
\* slot i
MQAccessing(i) ==
    {t \in MQThreads : /\ mq_pc[t] \in {"e_construct", "d_move", "d_destroy"}
                       /\ MQNode(mq_pos[t]) = i}

\* C20: no two threads access the element storage of one slot at the same
\* time, and a consumer moves out only of a slot that holds a constructed
\* element.
C20_SlotOwnership ==
    /\ \A i \in MQSlots : Cardinality(MQAccessing(i)) <= 1
    /\ \A t \in MQThreads :
          mq_pc[t] = "d_move" => mq_storage[MQNode(mq_pos[t])].live

\* the sequence number of a slot never goes down
MQSequenceNeverDown ==
    [][\A i \in MQSlots : mq_sequence'[i] >= mq_sequence[i]]_vars

\* C21: every step leaves both cursors unchanged or raises exactly one of them
\* by exactly 1, and only as the successful claim CAS of a call; a return of
\* full or empty, a failed CAS and a retry leave both unchanged.
C21_CursorsStepByOne ==
    [][/\ \/ UNCHANGED <<enqueue_pos_, dequeue_pos_>>
          \/ enqueue_pos_' = enqueue_pos_ + 1 /\ UNCHANGED dequeue_pos_
          \/ dequeue_pos_' = dequeue_pos_ + 1 /\ UNCHANGED enqueue_pos_
       /\ enqueue_pos_' # enqueue_pos_ =>
             \E t \in MQThreads : /\ mq_pc[t] = "e_cas"
                                  /\ mq_pc'[t] = "e_construct"
                                  /\ mq_pos[t] = enqueue_pos_
       /\ dequeue_pos_' # dequeue_pos_ =>
             \E t \in MQThreads : /\ mq_pc[t] = "d_cas"
                                  /\ mq_pc'[t] = "d_move"
                                  /\ mq_pos[t] = dequeue_pos_
       /\ \A t \in MQThreads :
             (\/ mq_pc[t] \in {"e_seq", "d_seq", "e_reload", "d_reload"}
                   /\ mq_pc'[t] # mq_pc[t]
              \/ mq_pc[t] = "e_cas" /\ mq_pc'[t] = "e_seq"
              \/ mq_pc[t] = "d_cas" /\ mq_pc'[t] = "d_seq")
             => UNCHANGED <<enqueue_pos_, dequeue_pos_>>
      ]_vars

\* both cursors have advanced past the first lap of a queue of two slots and a
\* try_dequeue is about to try its claim
C21_Witness ==
    /\ mq_capacity_ = 2
    /\ enqueue_pos_ = 3
    /\ dequeue_pos_ = 2
    /\ \E t \in MQThreads : mq_pc[t] = "d_cas" /\ mq_pos[t] = 2

\* thread t takes the diff > 0 branch and goes to reload its cursor
MQTakesRetryBranch(t) ==
    \/ mq_pc[t] = "e_seq" /\ mq_pc'[t] = "e_reload"
    \/ mq_pc[t] = "d_seq" /\ mq_pc'[t] = "d_reload"

\* the CAS of thread t fails
MQCasFails(t) ==
    \/ mq_pc[t] = "e_cas" /\ mq_pc'[t] = "e_seq"
    \/ mq_pc[t] = "d_cas" /\ mq_pc'[t] = "d_seq"

\* the cursor thread t works on has advanced since t loaded it into pos
MQCursorMovedOn(t) ==
    IF mq_pc[t] \in MQEnqPcs THEN enqueue_pos_ > mq_pos[t]
    ELSE dequeue_pos_ > mq_pos[t]

\* C22: whenever the CAS of a thread fails, or the thread takes the diff > 0
\* retry branch, another thread has advanced that cursor since the thread
\* loaded it (so every retry is paid for by the progress of another call).
C22_RetryMeansProgress ==
    [][\A t \in MQThreads :
          (MQCasFails(t) \/ MQTakesRetryBranch(t)) => MQCursorMovedOn(t)]_vars

\* the part of C22 about the diff > 0 branch alone
C22_RetryBranchMeansProgress ==
    [][\A t \in MQThreads : MQTakesRetryBranch(t) => MQCursorMovedOn(t)]_vars

\* C28: every call of size() returns a value from 0 to capacity(), also
\* while other threads enqueue and dequeue; so full() is true only for a
\* size of exactly capacity().
C28_SizeWithinCapacity ==
    mq_size_pc = "returned" =>
        /\ ULe(mq_size_ret, FromNat(mq_capacity_))
        /\ MQFullOf(mq_size_ret) => mq_size_ret = FromNat(mq_capacity_)

\* the same claims for a capacity of two or more
C1_Cap2 == mq_capacity_ >= 2 => C1_NoDuplicationNoFabrication
C2_Cap2 == mq_capacity_ >= 2 => C2_AtMostCapacity
C6_Cap2 == mq_capacity_ >= 2 => C6_SpscFifo
C12_Cap2 == mq_capacity_ >= 2 => C12_ThrowLeavesQueueUsable
C12_NoThrowCap2 == mq_capacity_ >= 2 => C12_QueueUsable
C13_Cap2 == mq_capacity_ >= 2 => C13_SoloCallReturns
C16_Cap2 == mq_capacity_ >= 2 => C16_EachElementDestroyedOnce
C18_Cap2 == mq_capacity_ >= 2 => C18_CursorsCountPublished
C19_Cap2 == [][mq_capacity_ >= 2 => MQProtocolStep]_vars
C20_Cap2 == mq_capacity_ >= 2 => C20_SlotOwnership
C22_Cap2 ==
    [][\A t \in MQThreads :
          (mq_capacity_ >= 2 /\ MQTakesRetryBranch(t)) => MQCursorMovedOn(t)]_vars
C28_Cap2 == mq_capacity_ >= 2 => C28_SizeWithinCapacity
C10_Cap2 ==
    [][\A t \in MQThreads :
          (mq_capacity_ >= 2 /\ mq_quiet[t] /\ mq_pc[t] \in MQEnqPcs
              /\ mq_pc'[t] # mq_pc[t]) =>
              /\ UNCHANGED <<enqueue_pos_, dequeue_pos_, mq_sequence, mq_storage>>
              /\ mq_pc'[t] = "idle"
              /\ mq_ret'[t] = "false"]_vars

----------------------------------------------------------------------------
(* RingBuffer                                                               *)

\* C7: the values try_read returned are a prefix of the values try_write
\* wrote, in the order written.
C7_RingFifo == IsPrefix(ValuesOf(hist, "read"), ValuesOf(hist, "write"))

\* three values went through a buffer of two slots, the third through a slot
\* used before, while the producer is writing again
C7_Witness ==
    /\ rb_capacity_ = 2
    /\ Len(ValuesOf(hist, "read")) >= 3
    /\ rb_pc["P"] # "idle"

\* write - read >= capacity, for cursors that did not wrap
RBNoRoom(write, read) == write < read \/ write - read >= rb_capacity_

\* C14: the producer refreshes cached_read_pos_ from read_pos_ once, exactly
\* when write_pos_ - cached_read_pos_ >= capacity; if there is still no room
\* it returns without constructing and without changing write_pos_ or a slot;
\* otherwise it constructs in slot write_pos_ mod capacity, and write_pos_ + 1
\* is stored only after that.
C14_WriteChecksThenConstructsThenPublishes ==
    [][/\ (rb_pc["P"] = "idle" /\ rb_pc'["P"] # "idle") =>
              /\ rb_pc'["P"] = IF RBNoRoom(write_pos_, cached_read_pos_)
                               THEN "w_refresh" ELSE "w_construct"
              /\ UNCHANGED <<write_pos_, cached_read_pos_, rb_storage>>
       /\ (rb_pc["P"] = "w_refresh" /\ rb_pc'["P"] # "w_refresh") =>
              /\ cached_read_pos_' = read_pos_
              /\ UNCHANGED <<write_pos_, rb_storage, hist>>
              /\ rb_pc'["P"] = IF RBNoRoom(write_pos_, read_pos_)
                               THEN "idle" ELSE "w_construct"
       /\ cached_read_pos_' # cached_read_pos_ => rb_pc["P"] = "w_refresh"
       /\ (rb_pc["P"] = "w_construct" /\ rb_pc'["P"] = "w_publish") =>
              /\ rb_storage' = [rb_storage EXCEPT
                                  ![write_pos_ % rb_capacity_] =
                                      [live |-> TRUE, val |-> rb_arg]]
              /\ UNCHANGED write_pos_
       /\ write_pos_' # write_pos_ =>
              /\ rb_pc["P"] = "w_publish"
              /\ write_pos_' = write_pos_ + 1
              /\ rb_storage[write_pos_ % rb_capacity_] =
                     [live |-> TRUE, val |-> rb_arg]
              /\ UNCHANGED rb_storage
       /\ (\E i \in RBSlots : ~rb_storage[i].live /\ rb_storage'[i].live) =>
              rb_pc["P"] = "w_construct"
      ]_vars

\* the producer has refreshed the cache of a full buffer of two and is about
\* to find it still full
C14_Witness ==
    /\ rb_capacity_ = 2
    /\ rb_pc["P"] = "w_refresh"
    /\ cached_read_pos_ = 1
    /\ read_pos_ = 1
    /\ write_pos_ = 3

\* the slot the producer is constructing into or has constructed and not
\* yet published; the slot the consumer is moving out of or destroying
RBProducerSlot ==
    IF rb_pc["P"] \in {"w_construct", "w_publish"}
    THEN {RBSlot(rb_write["P"])} ELSE {}

RBConsumerSlot ==
    IF rb_pc["C"] \in {"r_move", "r_destroy"}
    THEN {RBSlot(rb_read["C"])} ELSE {}

\* C25: the cursors stay within 0 <= write_pos_ - read_pos_ <= capacity; the
\* producer constructs only into a slot whose previous element was moved out
\* and destroyed; the consumer reads only a slot whose construction finished.
C25_CursorsBoundedSlotsExclusive ==
    /\ read_pos_ <= write_pos_
    /\ write_pos_ - read_pos_ <= rb_capacity_
    /\ rb_pc["P"] = "w_construct" =>
          /\ ~rb_storage[RBSlot(rb_write["P"])].live
          /\ rb_write["P"] = write_pos_
          /\ rb_write["P"] - read_pos_ < rb_capacity_
    /\ rb_pc["C"] \in {"r_move", "r_destroy"} =>
          /\ rb_read["C"] = read_pos_
          /\ rb_read["C"] < write_pos_
    /\ rb_pc["C"] = "r_move" => rb_storage[RBSlot(rb_read["C"])].live
    /\ RBProducerSlot \cap RBConsumerSlot = {}

\* the producer constructs into the slot of a buffer of two for the second
\* time while the consumer is moving the other element out
C25_Witness ==
    /\ rb_capacity_ = 2
    /\ rb_pc["P"] = "w_construct"
    /\ rb_write["P"] = 2
    /\ rb_pc["C"] = "r_move"
    /\ rb_read["C"] = 1

\* C26: the producer's cached copy of the read cursor never runs ahead of
\* the read cursor, so a write that the cache alone declares to have room
\* has room.
C26_CachedReadIsLowerBound ==
    /\ cached_read_pos_ <= read_pos_
    /\ rb_pc["P"] = "w_construct" => rb_write["P"] - read_pos_ < rb_capacity_

\* the producer has found room from its cache alone while the cache is behind
C26_Witness ==
    /\ rb_capacity_ = 2
    /\ rb_pc["P"] = "w_construct"
    /\ rb_write["P"] = 3
    /\ rb_read["P"] = cached_read_pos_
    /\ cached_read_pos_ = 2
    /\ read_pos_ = 3

\* C27 as stated: the consumer's cached copy of the write cursor is an upper
\* bound on the write cursor.
C27_CachedWriteIsUpperBound == cached_write_pos_ >= write_pos_

\* C27: the consumer's cached copy of the write cursor never runs ahead of the
\* write cursor, so a read that the cache alone declares to have an element
\* has one.
C27_CachedWriteIsLowerBound ==
    /\ cached_write_pos_ <= write_pos_
    /\ rb_pc["C"] = "r_move" => rb_read["C"] < write_pos_

\* the consumer has found an element from its cache alone while the cache is
\* behind the write cursor
C27_Witness ==
    /\ rb_capacity_ = 2
    /\ rb_pc["C"] = "r_move"
    /\ rb_read["C"] = 1
    /\ rb_write["C"] = cached_write_pos_
    /\ cached_write_pos_ = 2
    /\ write_pos_ = 3

----------------------------------------------------------------------------
(* LockFreeStack                                                            *)

\* the history h is what a sequential stack holding stk (top last) produces
RECURSIVE LifoReplay(_, _)
LifoReplay(h, stk) ==
    IF h = <<>> THEN TRUE
    ELSE LET e == Head(h) IN
         IF e[1] = "push" THEN LifoReplay(Tail(h), Append(stk, e[2]))
         ELSE IF e[1] = "pop"
         THEN /\ stk # <<>>
              /\ e[2] = stk[Len(stk)]
              /\ LifoReplay(Tail(h), SubSeq(stk, 1, Len(stk) - 1))
         ELSE /\ stk = <<>>
              /\ LifoReplay(Tail(h), stk)

\* C5: no thread reads old_head->next or old_head->data of a node that a
\* try_pop has freed.
C5_NoReadOfFreedNode == ~st_uaf

\* C8: single-threaded, every try_pop returns the most recently pushed value
\* not yet popped, and false exactly when nothing is left.
C8_SequentialLifo == LifoReplay(hist, <<>>)

\* push(1); push(2); try_pop() == 2; try_pop() == 1; try_pop() == false
C8_Witness ==
    /\ st_threads = {1}
    /\ Len(hist) >= 5
    /\ SubSeq(hist, 1, 5) = << <<"push", 1, 1>>, <<"push", 2, 1>>,
                               <<"pop", 2, 1>>, <<"pop", 1, 1>>,
                               <<"pop_empty", Garbage, 1>> >>

\* how often the history holds the event op with value v
StCount(op, v) ==
    Cardinality({k \in 1 .. Len(hist) : hist[k][1] = op /\ hist[k][2] = v})

\* no call is running and the stack is empty
StDrained ==
    /\ \A t \in st_threads : st_pc[t] = "idle"
    /\ st_head = Null

\* C29, the CAS: the CAS of a try_pop succeeds only for an old_head that was
\* not freed (and its address handed out again) since the thread loaded it.
StPopCasOnFreshHead ==
    \A t \in StAllThreads :
        (st_pc[t] = "t_cas" /\ st_pc'[t] = "t_data") => t \notin st_stale

C29_NoAbaCas == [][StPopCasOnFreshHead]_vars

\* C29: with concurrent push and try_pop and reuse of freed addresses, head
\* is null or points to a live node, every successful try_pop returns a
\* pushed value, no value is returned twice, and once the stack is drained
\* every pushed value has been returned.
C29_ExactlyOnceAndHeadLive ==
    /\ st_head = Null \/ (st_head \in StAddrs /\ st_heap[st_head].state = "live")
    /\ \A k \in 1 .. Len(hist) :
          hist[k][1] = "pop" =>
              /\ StCount("push", hist[k][2]) = 1
              /\ StCount("pop", hist[k][2]) = 1
    /\ StDrained =>
          \A k \in 1 .. Len(hist) :
              hist[k][1] = "push" => StCount("pop", hist[k][2]) = 1

\* two threads have pushed and popped three values and the stack is drained
C29_Witness ==
    /\ st_threads = StAllThreads
    /\ StDrained
    /\ \A v \in 1 .. MaxPush : StCount("push", v) = 1 /\ StCount("pop", v) = 1
    /\ \E j, k \in 1 .. Len(hist) :
          hist[j][1] = "pop" /\ hist[k][1] = "pop" /\ hist[j][3] # hist[k][3]

----------------------------------------------------------------------------
(* LockFreeQueue                                                            *)

LqPushed == {hist[i][2] : i \in HistIdx("push")}
LqPopped == {hist[i][2] : i \in HistIdx("pop")}

\* no call in flight and no node behind the dummy
LqDrained ==
    /\ \A t \in LqThreads : lq_pc[t] = "idle"
    /\ ~lq_crashed
    /\ lq_head = lq_tail
    /\ lq_heap[lq_head].next = Null

\* C3: no pop returns a value that was not pushed, no value is returned by
\* two pops, and once the queue is drained every pushed value was popped.
C3_PoppedExactlyOnce ==
    /\ LqPopped \subseteq LqPushed
    /\ \A i, j \in HistIdx("pop") : hist[i][2] = hist[j][2] => i = j
    /\ LqDrained => LqPushed \subseteq LqPopped

\* The same, in the behaviors where no freed node was accessed
C3_WhileNoFreedAccess == ~lq_uaf => C3_PoppedExactlyOnce

\* The history h replayed against a sequential queue q: every pop that took
\* effect ("take", its head CAS) returns the value that was oldest in q at
\* that instant (exp remembers it until the pop returns), and every pop that
\* reports empty saw q empty at some instant since its call began (seen).
RECURSIVE LqReplay(_, _, _, _)
LqReplay(h, q, exp, seen) ==
    IF h = <<>> THEN TRUE
    ELSE LET e == Head(h) IN
         IF e[1] = "push"
         THEN LqReplay(Tail(h), Append(q, e[2]), exp, seen)
         ELSE IF e[1] = "pop_call"
         THEN LqReplay(Tail(h), q, exp, [seen EXCEPT ![e[3]] = (q = <<>>)])
         ELSE IF e[1] = "take"
         THEN /\ q # <<>>
              /\ LqReplay(Tail(h), Tail(q), [exp EXCEPT ![e[3]] = Head(q)],
                          IF Len(q) = 1 THEN [u \in LqThreads |-> TRUE]
                          ELSE seen)
         ELSE IF e[1] = "pop"
         THEN /\ e[2] = exp[e[3]]
              /\ LqReplay(Tail(h), q, exp, seen)
         ELSE /\ seen[e[3]]
              /\ LqReplay(Tail(h), q, exp, seen)

\* C15: pop returns false only if the queue held no element at some instant
\* during the call, and on true its result is the oldest element not yet
\* popped at the instant of its head CAS.
C15_PopIsQueuePop ==
    LqReplay(hist, <<>>, [u \in LqThreads |-> Garbage],
             [u \in LqThreads |-> FALSE])

\* The same, in the behaviors where no freed node was accessed
C15_WhileNoFreedAccess == ~lq_uaf => C15_PopIsQueuePop

\* the instant the pop that returned at hist[j] took effect: its head CAS
LqTakeOf(j) ==
    MaxOf({i \in 1 .. j : hist[i][1] = "take" /\ hist[i][3] = hist[j][3]})

\* a was pushed before b, both by the same thread
LqPushedBefore(a, b) ==
    \E i, j \in HistIdx("push") :
        /\ i < j
        /\ hist[i][3] = hist[j][3]
        /\ hist[i][2] = a
        /\ hist[j][2] = b

\* C17: when one thread pushed a before b, no pop that returns b takes effect
\* before the pop that returns a.
C17_PerProducerOrder ==
    \A i, j \in HistIdx("pop") :
        LqPushedBefore(hist[i][2], hist[j][2]) => LqTakeOf(i) < LqTakeOf(j)

\* The same, in the behaviors where no freed node was accessed, together
\* with: once all calls have returned, a popped b has its earlier a popped too
C17_WhileNoFreedAccess ==
    ~lq_uaf =>
        /\ C17_PerProducerOrder
        /\ (\A t \in LqThreads : lq_pc[t] = "idle") =>
              \A a, b \in 1 .. MaxLqPush :
                  (LqPushedBefore(a, b) /\ b \in LqPopped) => a \in LqPopped

\* C23: once a producer has stopped for ever between linking its node and
\* advancing tail, every call of push and pop by another thread still
\* returns (the other threads being scheduled fairly).
C23_OthersCompleteDespiteStall ==
    \A t \in LqThreads :
        (LqProducerStalled /\ lq_pc[t] # "idle") ~> (lq_pc[t] = "idle")

\* C23, the part without which no call returns: a thread inside push or pop
\* can take its next step (the process has not died under it).
C23_OthersNeverBlocked ==
    LqProducerStalled =>
        \A t \in LqThreads : lq_pc[t] # "idle" => ENABLED LqThreadStep(t)

\* the number of events op among the first n of the history
LqCount(op, n) == Cardinality({k \in 1 .. n : hist[k][1] = op})

\* C23, the stalled node: a pop that begins after the node was linked does
\* not report an empty queue unless a pop has taken the node (the head CAS of
\* as many pops has succeeded as nodes were linked up to and including it).
C23_StalledValueStillPopped ==
    \A i \in 1 .. Len(hist) :
        (hist[i][1] = "push" /\ hist[i][3] = LqStalled) =>
            \A j \in (i + 1) .. Len(hist) :
                (hist[j][1] = "pop_empty"
                 /\ \E c \in (i + 1) .. (j - 1) :
                        /\ hist[c] = <<"pop_call", Garbage, hist[j][3]>>
                        /\ \A d \in (c + 1) .. (j - 1) : hist[d][3] # hist[j][3])
                => LqCount("take", j) >= LqCount("push", i)

\* the stalled producer's value has been popped by another thread
C23_Witness ==
    /\ LqProducerStalled
    /\ \E k \in 1 .. Len(hist) :
          /\ hist[k][1] = "pop"
          /\ hist[k][2] = lq_heap[lq_new_node[LqStalled]].data
          /\ hist[k][3] # LqStalled

\* a pointer to a node that is allocated and not freed
LqLive(a) == a \in LqAddrs /\ lq_heap[a].state = "live"

\* the nodes on the next-chain that starts at a, at most n of them
RECURSIVE LqChain(_, _)
LqChain(a, n) ==
    IF n = 0 \/ ~LqLive(a) THEN {}
    ELSE {a} \cup LqChain(lq_heap[a].next, n - 1)

\* the node at a is the last of the list
LqLast(a) == LqLive(a) /\ lq_heap[a].next = Null

\* C24: head and tail point to live nodes, tail is on the chain of next
\* pointers from head, and tail is the last node or the one before the last.
C24_ListWellFormed ==
    /\ LqLive(lq_head)
    /\ LqLive(lq_tail)
    /\ lq_tail \in LqChain(lq_head, Cardinality(LqAddrs))
    /\ LqLast(lq_tail) \/ LqLast(lq_heap[lq_tail].next)

C24_WhileNoFreedAccess == lq_uaf \/ C24_ListWellFormed

\* C4: no thread reads the next field or the data of a node, or does a CAS
\* on its next field, after the node was freed.
C4_NoAccessToFreedNode == ~lq_uaf

====
